---- MODULE Spec2Model ----
(***************************************************************************)
(* A model of the session discovery and parsing core of                    *)
(* claude-session-manager (src/src/historyParser.ts), of its search panel  *)
(* (src/src/searchProvider.ts), of the terminals and the metadata of the   *)
(* sessions (src/src/sessionManager.ts, src/src/metadataManager.ts), of    *)
(* the tree of folders and of the commands that open and archive sessions. *)
(*                                                                         *)
(* Strings that the code takes apart (paths, encoded directory names) are  *)
(* sequences of one-character strings, so that replace, split, join and    *)
(* path.join are computed character by character as the code computes      *)
(* them.                                                                   *)
(***************************************************************************)
EXTENDS Integers, Sequences, FiniteSets, TLC

VARIABLES
    fs,        \* PathCodec: the set of paths that exist on the filesystem
    call,      \* PathCodec: the last encode/decode round trip, or NoCall
    corpus,    \* SessionIndexer: ~/.claude/projects, its directories and files
    result,    \* SessionIndexer: what the last getSessions call returned
    panel,     \* SearchProvider: its fields, the search it awaits and its webview
    terminals,        \* the terminals that are open in the window, each with
                      \* the session id of the command that was sent to it
    activeTerminals,  \* SessionManager: the terminal tracked for a session id
    opened,    \* what the last openSessionById command did
    metadata,  \* MetadataManager: the metadata kept in the global state
    config,    \* the claudeSessions settings of the workspace
    tree       \* SessionProvider: the folders last built and the cached children

codecVars == <<fs, call>>
indexVars == <<corpus, result>>
treeVars == <<metadata, config, tree>>
hostVars == <<panel, terminals, activeTerminals, opened, treeVars>>
vars == <<fs, call, corpus, result, panel, terminals, activeTerminals, opened,
          metadata, config, tree>>

\* the fields of a SearchProvider as declared, its webview as loaded, and a
\* SessionManager that tracks no terminal
NotOpened == [op |-> "none"]
NewPanel ==
    [currentQuery |-> <<>>, searchResults |-> <<>>, isSearching |-> FALSE,
     query |-> <<>>, input |-> <<>>, debounceTimer |-> <<>>, inbox |-> <<>>,
     view |-> [status |-> "empty", query |-> <<>>, results |-> <<>>],
     requested |-> [type |-> "none"]]
\* the metadata of getMetadata when none is stored, the settings as the
\* manifest declares them, and a tree that was never built
NoMetadata ==
    [customNames |-> <<>>, autoNames |-> <<>>, summaries |-> <<>>,
     forkRelations |-> <<>>, archived |-> <<>>, customFolders |-> <<>>]
DefaultConfig == [showHistoricalSessions |-> TRUE, maxSessionsToShow |-> 50]
NoTree ==
    [built |-> FALSE, folders |-> <<>>, cachedSessions |-> <<>>,
     cachedArchivedSessions |-> <<>>, command |-> [op |-> "none"]]
HostInit ==
    /\ panel = NewPanel
    /\ terminals = <<>>
    /\ activeTerminals = <<>>
    /\ opened = NotOpened
    /\ metadata = NoMetadata
    /\ config = DefaultConfig
    /\ tree = NoTree

(***************************************************************************)
(* Bounds of the model                                                     *)
(***************************************************************************)
\* longest path, in characters, that the filesystem of the model can hold
MaxPathLen == 4
\* most lines of the transcript file of SpecFile
MaxLines == 3
\* most transcript files of the corpus of SpecEnum
MaxFiles == 3

(***************************************************************************)
(* Strings                                                                 *)
(***************************************************************************)
\* the characters a directory name is made of in the model
NameChars == {"a", "-"}

StringsUpTo(S, n) == UNION {[1..k -> S] : k \in 0..n}

\* index of the first c in s, 0 when there is none (String.prototype.indexOf)
RECURSIVE IndexFrom(_, _, _)
IndexFrom(s, c, i) ==
    IF i > Len(s) THEN 0
    ELSE IF s[i] = c THEN i
    ELSE IndexFrom(s, c, i + 1)

\* index of the last c in s, 0 when there is none
RECURSIVE LastIndexFrom(_, _, _)
LastIndexFrom(s, c, i) ==
    IF i < 1 THEN 0
    ELSE IF s[i] = c THEN i
    ELSE LastIndexFrom(s, c, i - 1)

\* String.prototype.split(c): "" gives one empty token, "a-" gives "a" and ""
RECURSIVE SplitOn(_, _)
SplitOn(s, c) ==
    LET i == IndexFrom(s, c, 1)
    IN  IF i = 0 THEN <<s>>
        ELSE <<SubSeq(s, 1, i - 1)>> \o SplitOn(SubSeq(s, i + 1, Len(s)), c)

\* Array.prototype.join(c)
RECURSIVE JoinWith(_, _)
JoinWith(parts, c) ==
    IF parts = <<>> THEN <<>>
    ELSE IF Len(parts) = 1 THEN parts[1]
    ELSE parts[1] \o <<c>> \o JoinWith(Tail(parts), c)

\* String.prototype.replace(/from/g, to) for one-character patterns
ReplaceAll(s, from, to) == [i \in 1..Len(s) |-> IF s[i] = from THEN to ELSE s[i]]

(***************************************************************************)
(* Node's path module (POSIX), on absolute paths                           *)
(***************************************************************************)
Root == <<"/">>

\* the value the code tests with `if (result)` and `decoded || ...`: null,
\* which is falsy like the empty string
Null == <<>>

\* path.normalize's walk over the segments: "" and "." are dropped, ".."
\* removes the segment before it (and is dropped at the root)
RECURSIVE ResolveSegments(_, _)
ResolveSegments(segs, acc) ==
    IF segs = <<>> THEN acc
    ELSE LET s == Head(segs)
         IN  IF s = <<>> \/ s = <<".">> THEN ResolveSegments(Tail(segs), acc)
             ELSE IF s = <<".", ".">>
                  THEN ResolveSegments(Tail(segs),
                          IF acc = <<>> THEN acc ELSE SubSeq(acc, 1, Len(acc) - 1))
             ELSE ResolveSegments(Tail(segs), Append(acc, s))

\* path.join(a, b) for an absolute a and a b without "/": empty arguments are
\* skipped, the rest joined with "/" and normalized
pathJoin(a, b) ==
    LET joined == IF b = <<>> THEN a ELSE a \o <<"/">> \o b
        segs == ResolveSegments(SplitOn(joined, "/"), <<>>)
    IN  <<"/">> \o JoinWith(segs, "/")

\* path.dirname of a normalized absolute path other than the root
pathDirname(p) ==
    LET i == LastIndexFrom(p, "/", Len(p))
    IN  IF i <= 1 THEN Root ELSE SubSeq(p, 1, i - 1)

\* path.basename of a normalized absolute path
pathBasename(p) ==
    LET i == LastIndexFrom(p, "/", Len(p))
    IN  SubSeq(p, i + 1, Len(p))

\* fs.existsSync
existsSync(p) == p \in fs

(***************************************************************************)
(* PathCodec: encodeProjectPath, decodeProjectPath, findValidPath          *)
(***************************************************************************)
encodeProjectPath(projectPath) == ReplaceAll(projectPath, "/", "-")

\* findValidPath without its second hypothesis (the token continues the previous
\* segment): the mutant of findValidPath
RECURSIVE findValidPathNoJoin(_, _, _)
findValidPathNoJoin(parts, index, currentPath) ==
    IF index > Len(parts)
    THEN IF existsSync(currentPath) THEN currentPath ELSE Null
    ELSE findValidPathNoJoin(parts, index + 1, pathJoin(currentPath, parts[index]))

\* index counts from 1 here and from 0 in the code
RECURSIVE findValidPath(_, _, _)
findValidPath(parts, index, currentPath) ==
    IF index > Len(parts)
    THEN IF existsSync(currentPath) THEN currentPath ELSE Null
    ELSE LET asNewComponent == pathJoin(currentPath, parts[index])
             resultNew == findValidPath(parts, index + 1, asNewComponent)
         IN  IF resultNew # Null THEN resultNew
             ELSE IF currentPath # Root
                  THEN LET parentDir == pathDirname(currentPath)
                           currentName == pathBasename(currentPath)
                           joinedName == currentName \o <<"-">> \o parts[index]
                           asJoined == pathJoin(parentDir, joinedName)
                       IN  findValidPath(parts, index + 1, asJoined)
                  ELSE Null

\* the fallback lost: the mutant of decodeFallback
decodeFallbackNone(decoded, parts) == decoded

\* `decoded || '/' + parts.join('/')`
decodeFallback(decoded, parts) ==
    IF decoded # Null THEN decoded ELSE <<"/">> \o JoinWith(parts, "/")

decodeProjectPath(encoded) ==
    LET withoutLeading == IF encoded # <<>> /\ encoded[1] = "-"
                          THEN Tail(encoded) ELSE encoded
        parts == SplitOn(withoutLeading, "-")
        decoded == findValidPath(parts, 1, Root)
    IN  decodeFallback(decoded, parts)

(***************************************************************************)
(* The filesystem the codec searches                                       *)
(***************************************************************************)
\* a normalized absolute path: "/" followed by segments, none of them empty,
\* "." or ".."
IsAbsPath(p) ==
    /\ p # <<>>
    /\ p[1] = "/"
    /\ \/ p = Root
       \/ \A s \in {SplitOn(Tail(p), "/")[i] : i \in 1..Len(SplitOn(Tail(p), "/"))} :
              s # <<>> /\ s # <<".">> /\ s # <<".", ".">>

AllPaths == {p \in StringsUpTo(NameChars \cup {"/"}, MaxPathLen) : IsAbsPath(p)}

NoCall == [path |-> Null, encoded |-> Null, decoded |-> Null]

\* p and the directories above it
RECURSIVE Ancestors(_)
Ancestors(p) == IF p = Root THEN {Root} ELSE {p} \cup Ancestors(pathDirname(p))

\* the filesystem holds the root and up to two directories, with the
\* directories above them
CodecInit ==
    /\ \E p, q \in AllPaths : fs = Ancestors(p) \cup Ancestors(q)
    /\ call = NoCall
    /\ corpus = [exists |-> FALSE, dirs |-> <<>>]
    /\ result = [status |-> "none"]
    /\ HostInit

\* a session directory is named encodeProjectPath(p) for the directory p the
\* session ran in (which may exist no longer); getSessions decodes the name
RoundTrip(p) ==
    /\ call = NoCall
    /\ call' = [path |-> p,
                encoded |-> encodeProjectPath(p),
                decoded |-> decodeProjectPath(encodeProjectPath(p))]
    /\ UNCHANGED <<fs, indexVars, hostVars>>

\* the caller takes the result
Return ==
    /\ call # NoCall
    /\ call' = NoCall
    /\ UNCHANGED <<fs, indexVars, hostVars>>

CodecNext ==
    \/ \E p \in AllPaths : RoundTrip(p)
    \/ Return

SpecCodec == CodecInit /\ [][CodecNext]_vars

(***************************************************************************)
(* Claims about the PathCodec                                              *)
(***************************************************************************)
\* the tokens of a path: what split('-') makes of its encoding
TokensOf(p) == SplitOn(Tail(encodeProjectPath(p)), "-")

\* no segment of p begins or ends with "-" or holds "--", and no token is
\* "." or "..": every token is a plain, non-empty name
CleanTokens(p) ==
    \/ p = Root
    \/ \A i \in 1..Len(TokensOf(p)) :
           /\ TokensOf(p)[i] # <<>>
           /\ TokensOf(p)[i] # <<".">>
           /\ TokensOf(p)[i] # <<".", ".">>

\* the path that a choice of hypotheses builds from the tokens: h[i] says
\* whether token i starts a new segment or continues the previous one with a
\* dash; Null when a token is to continue the root
RECURSIVE Build(_, _, _, _)
Build(parts, h, i, cur) ==
    IF i > Len(parts) THEN cur
    ELSE IF h[i] = "new" THEN Build(parts, h, i + 1, pathJoin(cur, parts[i]))
    ELSE IF cur = Root THEN Null
    ELSE Build(parts, h, i + 1,
               pathJoin(pathDirname(cur), pathBasename(cur) \o <<"-">> \o parts[i]))

\* every interpretation of the tokens under the two hypotheses
Interpretations(parts) ==
    {Build(parts, h, 1, Root) : h \in [1..Len(parts) -> {"new", "join"}]} \ {Null}

NaiveDecode(parts) == <<"/">> \o JoinWith(parts, "/")

\* C1 as stated: for every absolute path p that exists at decode time,
\* decodeProjectPath(encodeProjectPath(p)) = p, whatever other paths exist.
\* The code returns the first interpretation that exists, so this fails.
C1_RoundTripAnyExisting ==
    (call # NoCall /\ call.path \in fs) => call.decoded = call.path

\* C1 amended: for every existing absolute path p whose dash-separated tokens
\* are plain non-empty names, and such that no other existing path has the
\* same encoding, decodeProjectPath(encodeProjectPath(p)) = p.
C1_RoundTripUnambiguous ==
    (/\ call # NoCall
     /\ call.path \in fs
     /\ CleanTokens(call.path)
     /\ \A q \in fs : encodeProjectPath(q) = call.encoded => q = call.path)
    => call.decoded = call.path

\* C1 witness: an existing path with a dash inside a segment name, next to
\* other directories, decoded back to itself
C1_Witness ==
    /\ call # NoCall
    /\ call.path \in fs
    /\ CleanTokens(call.path)
    /\ \E i \in 1..Len(call.path) : call.path[i] = "-"
    /\ Cardinality(fs) >= 3
    /\ \A q \in fs : encodeProjectPath(q) = call.encoded => q = call.path
    /\ call.decoded = call.path

\* C2: decodeProjectPath returns a non-null path for every encoded string,
\* and when no interpretation of the tokens exists on the filesystem the
\* result is the naive decode: "/" followed by the tokens joined by "/".
C2_TotalWithNaiveFallback ==
    call # NoCall =>
        /\ call.decoded # Null
        /\ call.decoded[1] = "/"
        /\ (Interpretations(TokensOf(call.path)) \cap fs = {})
              => call.decoded = NaiveDecode(TokensOf(call.path))

\* C2 witness: a name with several tokens, none of whose interpretations
\* exists, decoded to the naive path
C2_Witness ==
    /\ call # NoCall
    /\ Len(TokensOf(call.path)) >= 2
    /\ Cardinality(fs) > 1
    /\ Interpretations(TokensOf(call.path)) \cap fs = {}
    /\ call.decoded = NaiveDecode(TokensOf(call.path))

(***************************************************************************)
(* SessionIndexer: transcript entries                                      *)
(***************************************************************************)
\* entry.timestamp absent (or falsy): `if (entry.timestamp)` skips it; also
\* firstTimestamp / lastTimestamp while still undefined
NoTs == 0
\* an entry.timestamp string that new Date() cannot parse
BadTs == -2
\* the time value of an Invalid Date
NaN == -1

\* new Date(entry.timestamp): the instant, or an Invalid Date
newDate(ts) == IF ts = BadTs THEN NaN ELSE ts

\* a < b on Dates: every comparison with an Invalid Date is false
DateLt(a, b) == a # NaN /\ b # NaN /\ a < b

\* a message text is a sequence of symbols: " " is white space, "Warmup" the
\* letters of the sentinel, "hi" any other letters
NoMsg == <<"no message">>        \* the entry has no `message`
NullBlock == <<"null block">>    \* message.content is an array holding null
Undefined == <<"undefined">>     \* firstUserMessage before it is set
NoSummary == "undefined"         \* summary before it is set

\* String.prototype.trim
RECURSIVE TrimStart(_)
TrimStart(t) == IF t # <<>> /\ Head(t) = " " THEN TrimStart(Tail(t)) ELSE t
RECURSIVE TrimEnd(_)
TrimEnd(t) ==
    IF t # <<>> /\ t[Len(t)] = " " THEN TrimEnd(SubSeq(t, 1, Len(t) - 1)) ELSE t
TrimText(t) == TrimEnd(TrimStart(t))

\* `!x` on a string or undefined
Falsy(t) == t = Undefined \/ t = <<>>

PlainEntry(kind) ==
    [kind |-> kind, ts |-> NoTs, side |-> FALSE, text |-> NoMsg,
     summary |-> NoSummary, cwd |-> Null]

(***************************************************************************)
(* SessionIndexer: parseSessionFile                                        *)
(***************************************************************************)
InitAcc ==
    [summary |-> NoSummary, messageCount |-> 0, firstTimestamp |-> NoTs,
     lastTimestamp |-> NoTs, cwd |-> Null, firstUserMessage |-> Undefined,
     hasRealContent |-> FALSE, isSidechain |-> FALSE]

\* the flag overwritten by each entry instead of latched: the mutant of
\* sidechainFlag
sidechainFlagLast(isSidechain, entry) == entry.side

\* `if (entry.isSidechain) isSidechain = true`
sidechainFlag(isSidechain, entry) == isSidechain \/ entry.side

\* `if (!firstTimestamp || ts < firstTimestamp) firstTimestamp = ts`
trackFirst(firstTimestamp, ts) ==
    IF firstTimestamp = NoTs \/ DateLt(ts, firstTimestamp) THEN ts ELSE firstTimestamp

\* `if (!lastTimestamp || ts > lastTimestamp) lastTimestamp = ts`
trackLast(lastTimestamp, ts) ==
    IF lastTimestamp = NoTs \/ DateLt(lastTimestamp, ts) THEN ts ELSE lastTimestamp

\* every parsed entry counted: the mutant of countsAsMessage
countsAsMessageAny(entry) == TRUE

\* `entry.type === 'user' || entry.type === 'assistant'`
countsAsMessage(entry) == entry.kind \in {"user", "assistant"}

\* msgContent.trim(), msgContent the string content or the joined texts of
\* the content blocks
messageText(text) == TrimText(text)

\* `if (entry.isSidechain) { isSidechain = true; }`
markSidechain(acc, entry) == [acc EXCEPT !.isSidechain = sidechainFlag(@, entry)]

\* `if (entry.type === 'summary' && entry.summary) { summary = entry.summary; }`
takeSummary(acc, entry) ==
    IF entry.kind = "summary" /\ entry.summary \notin {"", NoSummary}
    THEN [acc EXCEPT !.summary = entry.summary] ELSE acc

\* `if (entry.timestamp) { const ts = new Date(entry.timestamp); ... }`
trackTimestamps(acc, entry) ==
    IF entry.ts # NoTs
    THEN [acc EXCEPT !.firstTimestamp = trackFirst(@, newDate(entry.ts)),
                     !.lastTimestamp = trackLast(@, newDate(entry.ts))]
    ELSE acc

\* `messageCount++`
countMessage(acc, entry) ==
    IF countsAsMessage(entry) THEN [acc EXCEPT !.messageCount = @ + 1] ELSE acc

\* `entry.type === 'user' && !firstUserMessage && entry.message`
readsText(acc, entry) ==
    /\ countsAsMessage(entry)
    /\ entry.kind = "user"
    /\ Falsy(acc.firstUserMessage)
    /\ entry.text # NoMsg

\* `b.text` on a null content block throws a TypeError
throwsOnText(acc, entry) == readsText(acc, entry) /\ entry.text = NullBlock

\* `firstUserMessage = msgContent.trim()`
takeFirstUserMessage(acc, entry) ==
    IF readsText(acc, entry)
    THEN [acc EXCEPT !.firstUserMessage = messageText(entry.text)] ELSE acc

\* `if (entry.type === 'assistant') { hasRealContent = true; }`
markRealContent(acc, entry) ==
    IF countsAsMessage(entry) /\ entry.kind = "assistant"
    THEN [acc EXCEPT !.hasRealContent = TRUE] ELSE acc

\* `if (entry.cwd && !cwd) { cwd = entry.cwd; }`
takeCwd(acc, entry) ==
    IF entry.cwd # Null /\ acc.cwd = Null THEN [acc EXCEPT !.cwd = entry.cwd] ELSE acc

\* the entry up to and including `messageCount++`
entryHead(acc, entry) ==
    countMessage(trackTimestamps(takeSummary(markSidechain(acc, entry), entry), entry),
                 entry)

\* the entry after `messageCount++`: a throw leaves what was assigned before
\* it and skips the rest of the entry
entryTail(acc, entry) ==
    IF throwsOnText(acc, entry) THEN acc
    ELSE takeCwd(markRealContent(takeFirstUserMessage(acc, entry), entry), entry)

\* the body of the loop over the lines; JSON.parse throws on a bad line, and
\* `b.text` throws on a null content block after the entry was counted
processEntry(acc, entry) ==
    IF entry.kind = "bad" THEN acc ELSE entryTail(entryHead(acc, entry), entry)

RECURSIVE processLines(_, _)
processLines(acc, lines) ==
    IF lines = <<>> THEN acc
    ELSE processLines(processEntry(acc, Head(lines)), Tail(lines))

\* the sentinel compared in the wrong case: the mutant of warmupSkip
warmupSkipLowercase(acc) == acc.firstUserMessage = <<"warmup">>

\* `firstUserMessage === 'Warmup'`
warmupSkip(acc) == acc.firstUserMessage = <<"Warmup">>

\* `isSidechain`
sidechainSkip(acc) == acc.isSidechain

\* `!hasRealContent && messageCount < 2`
noContentSkip(acc) == ~acc.hasRealContent /\ acc.messageCount < 2

NullSession == [tag |-> "null"]
Threw == [tag |-> "throw"]

\* content.trim().split('\n').filter(line => line.trim())
nonBlankLines(file) == SelectSeq(file.lines, LAMBDA l : l.kind # "blank")

\* the three skips and the Session returned, from the values gathered
sessionOf(acc, file, sessionId, projectPath) ==
    IF warmupSkip(acc) THEN NullSession
    ELSE IF sidechainSkip(acc) THEN NullSession
    ELSE IF noContentSkip(acc) THEN NullSession
    ELSE [tag |-> "session",
          session |->
            [id |-> sessionId,
             projectPath |-> IF acc.cwd # Null THEN acc.cwd ELSE projectPath,
             startTime |-> IF acc.firstTimestamp # NoTs
                           THEN acc.firstTimestamp ELSE file.birthtime,
             lastActivityTime |-> IF acc.lastTimestamp # NoTs
                                  THEN acc.lastTimestamp ELSE file.mtime,
             messageCount |-> acc.messageCount,
             isActive |-> FALSE,
             autoGeneratedName |-> acc.summary]]

\* the loop over the lines that are not blank
parseLines(lines, file, sessionId, projectPath) ==
    IF lines = <<>> THEN NullSession
    ELSE sessionOf(processLines(InitAcc, lines), file, sessionId, projectPath)

\* statSync / readFileSync throw on an unreadable file; a file without any
\* line has size 0
parseSessionFile(file, sessionId, projectPath) ==
    IF ~file.readable THEN Threw
    ELSE IF file.lines = <<>> THEN NullSession
    ELSE parseLines(nonBlankLines(file), file, sessionId, projectPath)

(***************************************************************************)
(* SessionIndexer: getSessions                                             *)
(***************************************************************************)
\* the comparator turned around: the mutant of compareSessions
compareSessionsAscending(a, b) ==
    IF a.lastActivityTime = NaN \/ b.lastActivityTime = NaN THEN 0
    ELSE a.lastActivityTime - b.lastActivityTime

\* `b.lastActivityTime.getTime() - a.lastActivityTime.getTime()`; the sort
\* takes a NaN from the comparator as +0
compareSessions(a, b) ==
    IF a.lastActivityTime = NaN \/ b.lastActivityTime = NaN THEN 0
    ELSE b.lastActivityTime - a.lastActivityTime

Reverse(s) == [i \in 1..Len(s) |-> s[Len(s) + 1 - i]]

\* Array.prototype.sort as V8 runs it on fewer than 64 elements: the first
\* run is counted (and reversed when strictly descending), the rest is put
\* in place by binary insertion
\* the places from idx on at which the run ends: the element breaks the order
\* of the run
runBreaks(a, idx, isDescending) ==
    {i \in idx..Len(a) :
        (isDescending /\ compareSessions(a[i], a[i - 1]) >= 0)
        \/ (~isDescending /\ compareSessions(a[i], a[i - 1]) < 0)}

runEnd(a, idx, isDescending) ==
    IF runBreaks(a, idx, isDescending) = {} THEN Len(a)
    ELSE (CHOOSE i \in runBreaks(a, idx, isDescending) :
              \A j \in runBreaks(a, idx, isDescending) : i <= j) - 1

\* left and right count the elements before the place, as in V8
RECURSIVE binarySearch(_, _, _, _)
binarySearch(a, pivot, left, right) ==
    IF left >= right THEN left
    ELSE LET mid == left + ((right - left) \div 2)
         IN  IF compareSessions(pivot, a[mid + 1]) < 0
             THEN binarySearch(a, pivot, left, mid)
             ELSE binarySearch(a, pivot, mid + 1, right)

RECURSIVE binaryInsertionSort(_, _)
binaryInsertionSort(sortedPart, rest) ==
    IF rest = <<>> THEN sortedPart
    ELSE LET pivot == Head(rest)
             left == binarySearch(sortedPart, pivot, 0, Len(sortedPart))
         IN  binaryInsertionSort(
                 SubSeq(sortedPart, 1, left) \o <<pivot>>
                     \o SubSeq(sortedPart, left + 1, Len(sortedPart)),
                 Tail(rest))

arraySort(a) ==
    IF Len(a) < 2 THEN a
    ELSE LET isDescending == compareSessions(a[2], a[1]) < 0
             n == runEnd(a, 3, isDescending)
             run == IF isDescending THEN Reverse(SubSeq(a, 1, n)) ELSE SubSeq(a, 1, n)
         IN  binaryInsertionSort(run, SubSeq(a, n + 1, Len(a)))

\* the result returned whole: the mutant of sliceSessions
sliceSessionsAll(sessions, maxSessions) == sessions

\* Array.prototype.slice(0, maxSessions)
sliceSessions(sessions, maxSessions) ==
    LET end == IF maxSessions >= 0
               THEN (IF maxSessions < Len(sessions) THEN maxSessions ELSE Len(sessions))
               ELSE (IF Len(sessions) + maxSessions > 0
                     THEN Len(sessions) + maxSessions ELSE 0)
    IN  SubSeq(sessions, 1, end)

\* d.isDirectory() && !d.name.startsWith('.')
isProjectDir(dir) == dir.name = <<>> \/ dir.name[1] # "."

\* f.endsWith('.jsonl') && !f.startsWith('.') && !f.startsWith('agent-');
\* the corpus of the model holds .jsonl files only
isSessionFile(file) == ~file.agent

\* what the loop keeps of one file: a Session is pushed, null is not, and an
\* exception ends the loop unless it is caught; parsed records the outcome of
\* every call
keepOutcome(acc, file, outcome, caught) ==
    [sessions |-> IF outcome.tag = "session"
                  THEN Append(acc.sessions, outcome.session)
                  ELSE acc.sessions,
     parsed |-> Append(acc.parsed, [file |-> file, outcome |-> outcome]),
     threw |-> ~caught /\ outcome.tag = "throw"]

\* the exception of parseSessionFile let through: the mutant of visitFile
visitFileNoCatch(acc, dirName, file) ==
    IF acc.threw THEN acc
    ELSE keepOutcome(acc, file,
                     parseSessionFile(file, file.id, decodeProjectPath(dirName)),
                     FALSE)

\* the body of the loop over the session files: try { parse, push } catch
\* { continue }
visitFile(acc, dirName, file) ==
    IF acc.threw THEN acc
    ELSE keepOutcome(acc, file,
                     parseSessionFile(file, file.id, decodeProjectPath(dirName)),
                     TRUE)

RECURSIVE visitFiles(_, _, _)
visitFiles(acc, dir, i) ==
    IF i > Len(dir.files) THEN acc
    ELSE visitFiles(IF isSessionFile(dir.files[i])
                    THEN visitFile(acc, dir.name, dir.files[i]) ELSE acc,
                    dir, i + 1)

\* the body of the loop over the project directories; readdirSync throws on
\* an unreadable directory, outside the try block
visitDir(acc, dir) ==
    IF acc.threw THEN acc
    ELSE IF ~dir.readable THEN [acc EXCEPT !.threw = TRUE]
    ELSE visitFiles(acc, dir, 1)

RECURSIVE visitDirs(_, _)
visitDirs(acc, dirs) ==
    IF dirs = <<>> THEN acc ELSE visitDirs(visitDir(acc, Head(dirs)), Tail(dirs))

\* sort, slice and return; an exception of readdirSync leaves getSessions
returnSessions(acc, maxSessions) ==
    IF acc.threw
    THEN [status |-> "throw", limit |-> maxSessions, sessions |-> <<>>,
          parsed |-> acc.parsed]
    ELSE [status |-> "ok", limit |-> maxSessions,
          sessions |-> sliceSessions(arraySort(acc.sessions), maxSessions),
          parsed |-> acc.parsed]

\* getSessions on the corpus c; parsed lists what parseSessionFile returned
\* for each file it was called on
getSessionsOf(c, maxSessions) ==
    IF ~c.exists
    THEN [status |-> "ok", limit |-> maxSessions, sessions |-> <<>>, parsed |-> <<>>]
    ELSE returnSessions(visitDirs([sessions |-> <<>>, parsed |-> <<>>, threw |-> FALSE],
                                  SelectSeq(c.dirs, isProjectDir)),
                        maxSessions)

getSessions(maxSessions) == getSessionsOf(corpus, maxSessions)

\* `maxSessions: number = 50`
DefaultMaxSessions == 50

NoResult == [status |-> "none"]

\* the caller takes the sessions
Forget ==
    /\ result # NoResult
    /\ result' = NoResult
    /\ UNCHANGED <<corpus, codecVars, hostVars>>

GetSessions(maxSessions) ==
    /\ result = NoResult
    /\ result' = getSessions(maxSessions)
    /\ UNCHANGED <<corpus, codecVars, hostVars>>

(***************************************************************************)
(* SpecFile: one project directory with one transcript file, which grows   *)
(* line by line                                                            *)
(***************************************************************************)
UserTexts == {NoMsg, NullBlock, <<>>, <<" ">>, <<"Warmup">>, <<"Warmup", " ">>, <<"hi">>}

\* the lines of the model: a blank line, an unparseable line, summaries,
\* file-history snapshots, assistant messages and user messages, with each
\* kind of timestamp, of text and of summary, and the sidechain flag
FileEntries ==
    {PlainEntry("blank"), PlainEntry("bad")}
    \cup {[PlainEntry("summary") EXCEPT !.summary = x] : x \in {"", "S1", "S2"}}
    \cup {[PlainEntry("summary") EXCEPT !.summary = "S1", !.side = TRUE]}
    \cup {[PlainEntry("other") EXCEPT !.ts = t] : t \in {NoTs, 1, 2, BadTs}}
    \cup {[PlainEntry("other") EXCEPT !.side = TRUE]}
    \cup {[PlainEntry("assistant") EXCEPT !.ts = t, !.text = <<"hi">>] :
              t \in {NoTs, 1, 2, BadTs}}
    \cup {[PlainEntry("assistant") EXCEPT !.side = TRUE, !.text = <<"hi">>]}
    \cup {[PlainEntry("user") EXCEPT !.text = x] : x \in UserTexts}
    \cup {[PlainEntry("user") EXCEPT !.text = <<"hi">>, !.ts = 2],
          [PlainEntry("user") EXCEPT !.text = <<"Warmup">>, !.ts = 1],
          [PlainEntry("user") EXCEPT !.text = <<"hi">>, !.side = TRUE]}

HomeDirName == <<"-", "a">>

\* a file created at time 3 and last written at time 4; agent says that its
\* name begins with "agent-"
NewFile(id, agent, lines, readable) ==
    [id |-> id, agent |-> agent, readable |-> readable, birthtime |-> 3,
     mtime |-> 4, lines |-> lines]

FileInit ==
    /\ fs = {Root}
    /\ call = NoCall
    /\ corpus = [exists |-> TRUE,
                 dirs |-> <<[name |-> HomeDirName, readable |-> TRUE,
                             files |-> <<NewFile(1, FALSE, <<>>, TRUE)>>]>>]
    /\ result = NoResult
    /\ HostInit

\* the CLI appends a line to the transcript
AppendLine(e) ==
    /\ result = NoResult
    /\ Len(corpus.dirs[1].files[1].lines) < MaxLines
    /\ corpus' = [corpus EXCEPT !.dirs[1].files[1].lines = Append(@, e)]
    /\ UNCHANGED <<result, codecVars, hostVars>>

FileNext ==
    \/ \E e \in FileEntries : AppendLine(e)
    \/ GetSessions(DefaultMaxSessions)
    \/ Forget

SpecFile == FileInit /\ [][FileNext]_vars

(***************************************************************************)
(* SpecEnum: up to two project directories of one-line transcript files    *)
(***************************************************************************)
EnumLines ==
    {<<>>} \cup {<<[PlainEntry("assistant") EXCEPT !.ts = t, !.text = <<"hi">>]>> :
                    t \in {NoTs, 1, 2, BadTs}}

EnumInit ==
    /\ fs = {Root}
    /\ call = NoCall
    /\ corpus = [exists |-> TRUE,
                 dirs |-> <<[name |-> HomeDirName, readable |-> TRUE, files |-> <<>>],
                            [name |-> HomeDirName \o HomeDirName, readable |-> TRUE,
                             files |-> <<>>]>>]
    /\ result = NoResult
    /\ HostInit

FileCount(c) ==
    IF c.dirs = <<>> THEN 0
    ELSE Len(c.dirs[1].files) + (IF Len(c.dirs) > 1 THEN Len(c.dirs[2].files) ELSE 0)

\* a session ends and leaves its transcript in the directory of its project;
\* the file may be unreadable
AddFile(d, agent, lines, readable) ==
    /\ result = NoResult
    /\ FileCount(corpus) < MaxFiles
    /\ corpus' = [corpus EXCEPT !.dirs[d].files =
                      Append(@, NewFile(FileCount(corpus) + 1, agent, lines, readable))]
    /\ UNCHANGED <<result, codecVars, hostVars>>

EnumNext ==
    \/ \E d \in {1, 2}, lines \in EnumLines : AddFile(d, FALSE, lines, TRUE)
    \/ \E d \in {1, 2} : AddFile(d, FALSE, <<>>, FALSE)
    \/ \E d \in {1, 2} :
           AddFile(d, TRUE, <<[PlainEntry("assistant") EXCEPT !.ts = 2, !.text = <<"hi">>]>>, TRUE)
    \/ \E n \in 0..MaxFiles : GetSessions(n)
    \/ Forget

SpecEnum == EnumInit /\ [][EnumNext]_vars

(***************************************************************************)
(* Claims about the SessionIndexer                                         *)
(***************************************************************************)
SeqToSet(q) == {q[i] : i \in 1..Len(q)}

\* the transcript files of the corpus
FilesOf(c) == UNION {SeqToSet(c.dirs[d].files) : d \in 1..Len(c.dirs)}

\* the entries of a file: its lines that parse
EntriesOf(file) == SelectSeq(file.lines, LAMBDA l : l.kind \notin {"blank", "bad"})

\* the text of the first user message of the file in file order, trimmed:
\* that of the first user entry that has a message with readable content
RECURSIVE FirstUserTextOf(_)
FirstUserTextOf(entries) ==
    IF entries = <<>> THEN Undefined
    ELSE IF Head(entries).kind = "user" /\ Head(entries).text \notin {NoMsg, NullBlock}
         THEN TrimText(Head(entries).text)
         ELSE FirstUserTextOf(Tail(entries))

IsWarmupFile(file) == FirstUserTextOf(EntriesOf(file)) = <<"Warmup">>

IsSidechainFile(file) == \E e \in SeqToSet(EntriesOf(file)) : e.side

HasAssistantEntry(file) == \E e \in SeqToSet(EntriesOf(file)) : e.kind = "assistant"

\* the number of user and assistant entries of the file
MessageEntryCount(file) ==
    Len(SelectSeq(EntriesOf(file), LAMBDA e : e.kind \in {"user", "assistant"}))

\* the sessions that the last getSessions call returned for the file
SessionsFor(file) == {s \in SeqToSet(result.sessions) : s.id = file.id}

Called == result.status # "none"

\* C3: a transcript file whose first user message, after trimming, is exactly
\* "Warmup" never appears in the result of getSessions, whatever its message
\* count and its other entries.
C3_WarmupExcluded ==
    Called => \A f \in FilesOf(corpus) : IsWarmupFile(f) => SessionsFor(f) = {}

\* C3 witness: getSessions ran on a warmup file that has an assistant entry
\* and at least two messages, and whose first line is not the warmup message
C3_Witness ==
    /\ result.status = "ok"
    /\ \E f \in FilesOf(corpus) :
          /\ IsWarmupFile(f)
          /\ HasAssistantEntry(f)
          /\ MessageEntryCount(f) >= 2
          /\ f.lines[1].kind # "user"
          /\ SessionsFor(f) = {}

\* C4: a transcript file in which any parseable entry carries isSidechain =
\* true never appears in the result of getSessions, even with assistant
\* messages and many entries.
C4_SidechainExcluded ==
    Called => \A f \in FilesOf(corpus) : IsSidechainFile(f) => SessionsFor(f) = {}

\* C4 witness: getSessions ran on a file whose first entry is flagged, followed
\* by unflagged user and assistant messages
C4_Witness ==
    /\ result.status = "ok"
    /\ \E f \in FilesOf(corpus) :
          /\ Len(f.lines) >= 3
          /\ f.lines[1].kind \notin {"blank", "bad"}
          /\ f.lines[1].side
          /\ ~f.lines[Len(f.lines)].side
          /\ HasAssistantEntry(f)
          /\ MessageEntryCount(f) >= 2
          /\ SessionsFor(f) = {}

\* C5: for every limit N >= 0 and every corpus, getSessions(N) returns at
\* most N sessions.
C5_AtMostLimit ==
    (Called /\ result.limit >= 0) => Len(result.sessions) <= result.limit

\* the number of files that parseSessionFile made a session of
IndexedCount == Cardinality({i \in 1..Len(result.parsed) :
                                result.parsed[i].outcome.tag = "session"})

\* C5 witness: more sessions were indexed than the limit lets through
C5_Witness ==
    /\ result.status = "ok"
    /\ result.limit >= 1
    /\ IndexedCount > result.limit
    /\ Len(result.sessions) = result.limit

C7_ContentRule ==
    Called => \A i \in 1..Len(result.parsed) :
        LET f == result.parsed[i].file
            outcome == result.parsed[i].outcome
        IN  /\ (~HasAssistantEntry(f) /\ MessageEntryCount(f) < 2)
                  => outcome = NullSession
            /\ (/\ EntriesOf(f) # <<>>
                /\ ~IsWarmupFile(f)
                /\ ~IsSidechainFile(f)
                /\ (HasAssistantEntry(f) \/ MessageEntryCount(f) >= 2))
                  => outcome.tag = "session"

\* C8: for every returned Session, messageCount equals the number of
\* parseable entries of the file whose type is user or assistant; entries of
\* any other type are never counted.
C8_MessageCount ==
    Called => \A f \in FilesOf(corpus) : \A s \in SessionsFor(f) :
                  s.messageCount = MessageEntryCount(f)

\* C8 witness: a returned session of a file that also holds a summary, a
\* snapshot and an unparseable line
C8_Witness ==
    /\ result.status = "ok"
    /\ \E f \in FilesOf(corpus) :
          /\ SessionsFor(f) # {}
          /\ \E l \in SeqToSet(f.lines) : l.kind \in {"summary", "other", "bad"}
          /\ \E s \in SessionsFor(f) : s.messageCount = MessageEntryCount(f)
                                        /\ s.messageCount >= 1

\* the instants of the entries of the file that carry a timestamp
TimesOf(file) == {e.ts : e \in {x \in SeqToSet(EntriesOf(file)) : x.ts \notin {NoTs, BadTs}}}

MinOf(S) == CHOOSE x \in S : \A y \in S : x <= y
MaxOf(S) == CHOOSE x \in S : \A y \in S : x >= y

\* C9 as stated: for every returned Session, startTime is the earliest and
\* lastActivityTime the latest timestamp among the entries that carry a
\* timestamp, independent of the order of the entries; when no entry carries
\* a timestamp they are the file's creation and modification time. (A file
\* whose only timestamps are unparseable is left unconstrained here.)
C9_EarliestLatest ==
    Called => \A f \in FilesOf(corpus) : \A s \in SessionsFor(f) :
        /\ TimesOf(f) # {} =>
              /\ s.startTime = MinOf(TimesOf(f))
              /\ s.lastActivityTime = MaxOf(TimesOf(f))
        /\ (\A e \in SeqToSet(EntriesOf(f)) : e.ts = NoTs) =>
              /\ s.startTime = f.birthtime
              /\ s.lastActivityTime = f.mtime

\* the corpus without the file
RemoveFile(c, file) ==
    [c EXCEPT !.dirs = [d \in 1..Len(c.dirs) |->
        [c.dirs[d] EXCEPT !.files = SelectSeq(@, LAMBDA x : x # file)]]]

\* C10: one bad transcript file never aborts enumeration: when parsing a file
\* throws, getSessions returns the sessions of the remaining files, exactly as
\* if the bad file were absent.
C10_BadFileSkipped ==
    Called => \A f \in FilesOf(corpus) :
        (~f.agent /\ ~f.readable) =>
            /\ result.status = "ok"
            /\ result.sessions = getSessionsOf(RemoveFile(corpus, f), result.limit).sessions

\* C10 witness: an unreadable file, and a session returned from a file that
\* getSessions visited after it
C10_Witness ==
    /\ result.status = "ok"
    /\ \E d \in 1..Len(corpus.dirs) : \E i, j \in 1..Len(corpus.dirs[d].files) :
          /\ i < j
          /\ ~corpus.dirs[d].files[i].readable
          /\ SessionsFor(corpus.dirs[d].files[j]) # {}

(***************************************************************************)
(* TranscriptSearch: getSessionMessages, getSessionSummary,                *)
(* searchTranscripts                                                       *)
(***************************************************************************)
UpperLetters ==
    <<"A", "B", "C", "D", "E", "F", "G", "H", "I", "J", "K", "L", "M",
      "N", "O", "P", "Q", "R", "S", "T", "U", "V", "W", "X", "Y", "Z">>
LowerLetters ==
    <<"a", "b", "c", "d", "e", "f", "g", "h", "i", "j", "k", "l", "m",
      "n", "o", "p", "q", "r", "s", "t", "u", "v", "w", "x", "y", "z">>

\* String.prototype.toLowerCase of one character; the capital I with a dot
\* above (U+0130) becomes two characters, i and a combining dot
lowerOf(c) ==
    IF c = "Idot" THEN <<"i", "dot">>
    ELSE IF \E i \in 1..Len(UpperLetters) : UpperLetters[i] = c
         THEN <<LowerLetters[CHOOSE i \in 1..Len(UpperLetters) : UpperLetters[i] = c]>>
         ELSE <<c>>

\* the characters are converted one by one, the two halves of the string
\* apart
RECURSIVE toLowerCase(_)
toLowerCase(s) ==
    IF s = <<>> THEN <<>>
    ELSE IF Len(s) = 1 THEN lowerOf(s[1])
    ELSE toLowerCase(SubSeq(s, 1, Len(s) \div 2))
             \o toLowerCase(SubSeq(s, (Len(s) \div 2) + 1, Len(s)))

\* the positions, counted from 0, at which q stands in s
positionsOf(s, q) == {i \in 0..(Len(s) - Len(q)) : SubSeq(s, i + 1, i + Len(q)) = q}

\* String.prototype.indexOf(q): the first position, -1 when q is absent
indexOf(s, q) ==
    IF positionsOf(s, q) = {} THEN -1
    ELSE CHOOSE i \in positionsOf(s, q) : \A j \in positionsOf(s, q) : i <= j

\* String.prototype.includes
includes(s, q) == indexOf(s, q) # -1

\* String.prototype.slice(start, end) with 0 <= start and 0 <= end <= length
slice(s, start, end) == IF start >= end THEN <<>> ELSE SubSeq(s, start + 1, end)

\* the project directories in the order readdirSync lists them
projectDirsOf(c) == SelectSeq(c.dirs, isProjectDir)

\* fs.existsSync(path.join(projectsPath, projectDir.name, sessionId + '.jsonl'))
holdsSessionFile(dir, sessionId) == \E i \in 1..Len(dir.files) : dir.files[i].id = sessionId

sessionFileIn(dir, sessionId) ==
    dir.files[CHOOSE i \in 1..Len(dir.files) : dir.files[i].id = sessionId]

\* the file of the first project directory that holds one of that name
RECURSIVE findInDirs(_, _)
findInDirs(dirs, sessionId) ==
    IF dirs = <<>> THEN NullSession
    ELSE IF holdsSessionFile(Head(dirs), sessionId)
         THEN [tag |-> "file", file |-> sessionFileIn(Head(dirs), sessionId)]
         ELSE findInDirs(Tail(dirs), sessionId)

findSessionFile(c, sessionId) ==
    IF ~c.exists THEN NullSession ELSE findInDirs(projectDirsOf(c), sessionId)

\* parseMessage: the content is the string, or the texts of the blocks; line
\* is the place of the entry among the lines of the file, which the code
\* does not keep
parseMessage(sessionId, entry, line) ==
    [sessionId |-> sessionId, role |-> entry.kind, content |-> entry.text, line |-> line]

\* `(entry.type === 'user' || entry.type === 'assistant') && entry.message`;
\* JSON.parse throws on a bad line and `block.type` on a null block, and the
\* catch skips the line
isMessageLine(entry) ==
    /\ entry.kind \in {"user", "assistant"}
    /\ entry.text # NoMsg
    /\ entry.text # NullBlock

RECURSIVE messagesFrom(_, _, _)
messagesFrom(sessionId, lines, i) ==
    IF i > Len(lines) THEN <<>>
    ELSE (IF isMessageLine(lines[i])
          THEN <<parseMessage(sessionId, lines[i], i)>> ELSE <<>>)
         \o messagesFrom(sessionId, lines, i + 1)

\* readFileSync is outside every try block
readMessages(found, sessionId) ==
    IF found.tag = "null" THEN [status |-> "ok", messages |-> <<>>]
    ELSE IF ~found.file.readable THEN [status |-> "throw", messages |-> <<>>]
    ELSE [status |-> "ok",
          messages |-> messagesFrom(sessionId, nonBlankLines(found.file), 1)]

getSessionMessages(c, sessionId) == readMessages(findSessionFile(c, sessionId), sessionId)

\* the first summary entry with a summary that is not empty
RECURSIVE firstSummary(_, _)
firstSummary(lines, i) ==
    IF i > Len(lines) THEN Null
    ELSE IF lines[i].kind = "summary" /\ lines[i].summary \notin {"", NoSummary}
         THEN lines[i].summary
         ELSE firstSummary(lines, i + 1)

readSummary(found) ==
    IF found.tag = "null" THEN [status |-> "ok", summary |-> Null]
    ELSE IF ~found.file.readable THEN [status |-> "throw", summary |-> Null]
    ELSE [status |-> "ok", summary |-> firstSummary(nonBlankLines(found.file), 1)]

getSessionSummary(c, sessionId) == readSummary(findSessionFile(c, sessionId))

\* `await this.getSessions(200)`
SearchSessionLimit == 200
\* `idx - 50`, `idx + query.length + 50`
ContextChars == 50
\* '...'
Ellipsis == <<".", ".", ".">>

\* Math.max(0, idx - 50)
contextStart(idx) == IF idx - ContextChars > 0 THEN idx - ContextChars ELSE 0

\* Math.min(message.content.length, idx + query.length + 50)
contextEnd(content, query, idx) ==
    IF idx + Len(query) + ContextChars < Len(content)
    THEN idx + Len(query) + ContextChars ELSE Len(content)

contextBetween(content, start, end) ==
    (IF start > 0 THEN Ellipsis ELSE <<>>)
        \o slice(content, start, end)
        \o (IF end < Len(content) THEN Ellipsis ELSE <<>>)

\* idx is a position of the lowercased content, the slice is cut from the
\* content itself
contextAt(content, query, idx) ==
    contextBetween(content, contextStart(idx), contextEnd(content, query, idx))

matchContext(content, query) ==
    contextAt(content, query, indexOf(toLowerCase(content), toLowerCase(query)))

\* `message.content.toLowerCase().includes(queryLower)`
matches(message, query) == includes(toLowerCase(message.content), toLowerCase(query))

\* `results.length >= maxResults`, tested after each push
capReached(count, maxResults) == count >= maxResults

\* each hit put in front of the earlier ones: the mutant of scanMessage
scanMessageHitFirst(acc, session, rank, message, query, maxResults) ==
    IF acc.done THEN acc
    ELSE IF matches(message, query)
         THEN [acc EXCEPT
                 !.results = <<[session |-> session, message |-> message,
                                matchContext |-> matchContext(message.content, query),
                                rank |-> rank]>> \o @,
                 !.examined = Append(@, [rank |-> rank, line |-> message.line]),
                 !.done = capReached(Len(acc.results) + 1, maxResults)]
         ELSE [acc EXCEPT !.examined = Append(@, [rank |-> rank, line |-> message.line])]

\* one turn of the loop over the messages; rank is the place of the session
\* in the list of getSessions, examined the turns taken so far
scanMessage(acc, session, rank, message, query, maxResults) ==
    IF acc.done THEN acc
    ELSE IF matches(message, query)
         THEN [acc EXCEPT
                 !.results = Append(@, [session |-> session, message |-> message,
                                       matchContext |-> matchContext(message.content, query),
                                       rank |-> rank]),
                 !.examined = Append(@, [rank |-> rank, line |-> message.line]),
                 !.done = capReached(Len(acc.results) + 1, maxResults)]
         ELSE [acc EXCEPT !.examined = Append(@, [rank |-> rank, line |-> message.line])]

RECURSIVE scanMessages(_, _, _, _, _, _, _)
scanMessages(acc, session, rank, messages, i, query, maxResults) ==
    IF i > Len(messages) THEN acc
    ELSE scanMessages(scanMessage(acc, session, rank, messages[i], query, maxResults),
                      session, rank, messages, i + 1, query, maxResults)

\* the messages of one session, or the exception of getSessionMessages
scanRead(acc, session, rank, read, query, maxResults) ==
    IF read.status = "throw" THEN [acc EXCEPT !.done = TRUE, !.threw = TRUE]
    ELSE scanMessages(acc, session, rank, read.messages, 1, query, maxResults)

\* one turn of the loop over the sessions; the return inside the loop over
\* the messages ends this loop too
scanSession(acc, c, session, rank, query, maxResults) ==
    IF acc.done THEN acc
    ELSE scanRead(acc, session, rank, getSessionMessages(c, session.id),
                  query, maxResults)

\* the turns for the sessions at the places first..last, in their order
RECURSIVE scanRange(_, _, _, _, _, _, _)
scanRange(acc, c, sessions, first, last, query, maxResults) ==
    IF acc.done \/ first > last THEN acc
    ELSE IF first = last
    THEN scanSession(acc, c, sessions[first], first, query, maxResults)
    ELSE scanRange(scanRange(acc, c, sessions, first, (first + last) \div 2,
                             query, maxResults),
                   c, sessions, ((first + last) \div 2) + 1, last, query, maxResults)

scanSessions(acc, c, sessions, rank, query, maxResults) ==
    scanRange(acc, c, sessions, rank, Len(sessions), query, maxResults)

searchReturn(acc, listed, query, maxResults) ==
    [status |-> IF acc.threw THEN "throw" ELSE "ok", op |-> "search",
     query |-> query, maxResults |-> maxResults, sessions |-> listed.sessions,
     hits |-> IF acc.threw THEN <<>> ELSE acc.results, examined |-> acc.examined]

searchListed(c, listed, query, maxResults) ==
    IF listed.status = "throw"
    THEN [status |-> "throw", op |-> "search", query |-> query,
          maxResults |-> maxResults, sessions |-> <<>>, hits |-> <<>>, examined |-> <<>>]
    ELSE searchReturn(scanSessions([results |-> <<>>, examined |-> <<>>, done |-> FALSE,
                                    threw |-> FALSE],
                                   c, listed.sessions, 1, query, maxResults),
                      listed, query, maxResults)

searchTranscripts(c, query, maxResults) ==
    searchListed(c, getSessionsOf(c, SearchSessionLimit), query, maxResults)

\* the three other public operations, called on the corpus as it is
GetSessionMessages(sessionId) ==
    /\ result = NoResult
    /\ result' = [op |-> "messages", id |-> sessionId,
                  status |-> getSessionMessages(corpus, sessionId).status,
                  messages |-> getSessionMessages(corpus, sessionId).messages]
    /\ UNCHANGED <<corpus, codecVars, hostVars>>

GetSessionSummary(sessionId) ==
    /\ result = NoResult
    /\ result' = [op |-> "summary", id |-> sessionId,
                  status |-> getSessionSummary(corpus, sessionId).status,
                  summary |-> getSessionSummary(corpus, sessionId).summary]
    /\ UNCHANGED <<corpus, codecVars, hostVars>>

SearchTranscripts(query, maxResults) ==
    /\ result = NoResult
    /\ result' = searchTranscripts(corpus, query, maxResults)
    /\ UNCHANGED <<corpus, codecVars, hostVars>>

(***************************************************************************)
(* SpecCorrupt: a corpus of two project directories with one transcript    *)
(* each, which loses its root, the read permission of a directory or the   *)
(* read permission of a file                                               *)
(***************************************************************************)
SessionIds == {1, 2}

\* the text "Diff"
DiffText == <<"D", "i", "f", "f">>
\* the query "diff"
DiffQuery == <<"d", "i", "f", "f">>

CorruptLines ==
    <<[PlainEntry("summary") EXCEPT !.summary = "S1"],
      [PlainEntry("user") EXCEPT !.text = DiffText, !.ts = 1],
      [PlainEntry("assistant") EXCEPT !.text = DiffText, !.ts = 2]>>

OtherDirName == <<"-", "a", "-", "a">>

CorruptInit ==
    /\ fs = {Root}
    /\ call = NoCall
    /\ corpus = [exists |-> TRUE,
                 dirs |-> <<[name |-> HomeDirName, readable |-> TRUE,
                             files |-> <<NewFile(1, FALSE, CorruptLines, TRUE)>>],
                            [name |-> OtherDirName, readable |-> TRUE,
                             files |-> <<NewFile(2, FALSE, CorruptLines, TRUE)>>]>>]
    /\ result = NoResult
    /\ HostInit

\* ~/.claude/projects is removed
RootRemoved ==
    /\ result = NoResult
    /\ corpus.exists
    /\ corpus' = [corpus EXCEPT !.exists = FALSE]
    /\ UNCHANGED <<result, codecVars, hostVars>>

\* a project directory loses its read permission: readdirSync throws EACCES
DirUnreadable(d) ==
    /\ result = NoResult
    /\ corpus.dirs[d].readable
    /\ corpus' = [corpus EXCEPT !.dirs[d].readable = FALSE]
    /\ UNCHANGED <<result, codecVars, hostVars>>

\* a transcript loses its read permission: statSync and readFileSync throw
FileUnreadable(d) ==
    /\ result = NoResult
    /\ corpus.dirs[d].files[1].readable
    /\ corpus' = [corpus EXCEPT !.dirs[d].files[1].readable = FALSE]
    /\ UNCHANGED <<result, codecVars, hostVars>>

CorruptNext ==
    \/ RootRemoved
    \/ \E d \in {1, 2} : DirUnreadable(d)
    \/ \E d \in {1, 2} : FileUnreadable(d)
    \/ GetSessions(DefaultMaxSessions)
    \/ \E id \in SessionIds : GetSessionMessages(id)
    \/ \E id \in SessionIds : GetSessionSummary(id)
    \/ \E n \in {1, 2} : SearchTranscripts(DiffQuery, n)
    \/ Forget

SpecCorrupt == CorruptInit /\ [][CorruptNext]_vars

\* C11: no public operation (getSessions, getSessionMessages,
\* getSessionSummary, searchTranscripts) raises to its caller, whatever was
\* removed or made unreadable in the corpus
C11_NeverRaises == result.status # "throw"

(***************************************************************************)
(* Claims about malformed lines                                            *)
(***************************************************************************)
\* a line that JSON.parse rejects
Unparseable(e) == e.kind = "bad"

\* a line that is unparseable, or a record with a malformed field: a content
\* array that holds null
Malformed(e) == Unparseable(e) \/ e.text = NullBlock

WithoutLines(file, Bad(_)) == [file EXCEPT !.lines = SelectSeq(@, LAMBDA l : ~Bad(l))]

\* C12: what parseSessionFile returns for a file (null or the Session, with
\* its messageCount, summary and timestamps) is what it returns for the same
\* file with every malformed line removed
C12_MalformedSkipped ==
    Called =>
        \A i \in 1..Len(result.parsed) :
            LET file == result.parsed[i].file
            IN  result.parsed[i].outcome =
                    parseSessionFile(WithoutLines(file, Malformed), file.id,
                                     decodeProjectPath(HomeDirName))

(***************************************************************************)
(* SessionNamer: extractTaskFocus, generateDefaultName                     *)
(***************************************************************************)
\* 'Session', 'Self-improvement', 'Global', 'Minty'
SessionLabel == <<"S", "e", "s", "s", "i", "o", "n">>
SelfImprovementLabel ==
    <<"S", "e", "l", "f", "-", "i", "m", "p", "r", "o", "v", "e", "m", "e", "n", "t">>
GlobalLabel == <<"G", "l", "o", "b", "a", "l">>
MintyLabel == <<"M", "i", "n", "t", "y">>

selfImprovementKeywords ==
    <<<<"s", "e", "l", "f", "-", "i", "m", "p", "r", "o", "v", "e", "m", "e", "n", "t">>,
      <<"m", "e", "t", "a", "c", "o", "g", "n", "i", "t", "i", "o", "n">>,
      <<"a", "g", "e", "n", "t", " ", "c", "a", "p", "a", "b", "i", "l", "i", "t", "i",
        "e", "s">>,
      <<"s", "k", "i", "l", "l">>,
      <<"l", "e", "a", "r", "n", "i", "n", "g">>,
      <<"c", "l", "a", "u", "d", "e", ".", "m", "d">>,
      <<"w", "o", "r", "k", "f", "l", "o", "w">>>>

globalKeywords ==
    <<<<"c", "r", "o", "s", "s", "-", "p", "r", "o", "j", "e", "c", "t">>,
      <<"m", "a", "n", "a", "g", "e", "m", "e", "n", "t">>,
      <<"o", "r", "g", "a", "n", "i", "z", "a", "t", "i", "o", "n">>,
      <<"c", "l", "e", "a", "n", "u", "p">>,
      <<"s", "e", "s", "s", "i", "o", "n">>,
      <<"i", "n", "f", "r", "a", "s", "t", "r", "u", "c", "t", "u", "r", "e">>,
      <<"b", "a", "c", "k", "l", "o", "g">>>>

\* the table in the order of its entries, which is the order Object.entries visits
knownProjects ==
    <<[keyword |-> <<"c", "o", "r", "p", "u", "s", "-", "s", "e", "a", "r", "c", "h">>,
       project |-> <<"c", "o", "r", "p", "u", "s", "-", "s", "e", "a", "r", "c", "h">>],
      [keyword |-> <<"c", "o", "r", "p", "u", "s", " ", "s", "e", "a", "r", "c", "h">>,
       project |-> <<"c", "o", "r", "p", "u", "s", "-", "s", "e", "a", "r", "c", "h">>],
      [keyword |-> <<"j", "h", "u">>,
       project |-> <<"J", "H", "U", "-", "h", "i", "r", "i", "n", "g">>],
      [keyword |-> <<"h", "i", "r", "i", "n", "g">>,
       project |-> <<"J", "H", "U", "-", "h", "i", "r", "i", "n", "g">>],
      [keyword |-> <<"t", "h", "o", "m", "p", "s", "o", "n">>,
       project |-> <<"J", "H", "U", "-", "h", "i", "r", "i", "n", "g">>],
      [keyword |-> <<"b", "l", "a", "m", "e">>,
       project |-> <<"b", "l", "a", "m", "e", "-", "t", "h", "e", "o">>],
      [keyword |-> <<"k", "i", "r", "a">>,
       project |-> <<"a", "g", "e", "n", "t", "-", "k", "i", "r", "a">>],
      [keyword |-> <<"p", "r", "i", "v", "a", "c", "y">>,
       project |-> <<"a", "g", "e", "n", "t", "-", "k", "i", "r", "a">>],
      [keyword |-> <<"c", "l", "a", "i", "m", "s">>,
       project |-> <<"c", "l", "a", "i", "m", "s", "-", "s", "e", "c", "i", "l">>],
      [keyword |-> <<"c", "o", "m", "p", "l", "i", "a", "n", "t">>,
       project |-> <<"c", "o", "m", "p", "l", "i", "a", "n", "t", "-", "c", "a", "m", "e", "r", "o", "n">>],
      [keyword |-> <<"d", "e", "c", "e", "p", "t", "i", "v", "e">>,
       project |-> <<"d", "e", "c", "e", "p", "t", "i", "v", "e", "-", "i", "m", "a", "n">>],
      [keyword |-> <<"e", "g", "o", "n", "o", "r", "m", "o", "u", "s">>,
       project |-> <<"e", "g", "o", "n", "o", "r", "m", "o", "u", "s", "-", "s", "i", "c", "h", "a", "o">>],
      [keyword |-> <<"m", "o", "r", "e", "b", "e", "n", "c", "h">>,
       project |-> <<"e", "v", "e", "n", "-", "m", "o", "r", "e", "-", "b", "e", "n", "c", "h", "-", "C", "Y">>],
      [keyword |-> <<"i", "a", "s", "e", "a", "i">>,
       project |-> <<"I", "A", "S", "E", "A", "I">>],
      [keyword |-> <<"w", "o", "r", "k", "s", "h", "o", "p">>,
       project |-> <<"I", "A", "S", "E", "A", "I">>],
      [keyword |-> <<"n", "o", "t", "i", "o", "n">>,
       project |-> <<"n", "o", "t", "i", "o", "n", "-", "a", "u", "t", "o", "m", "a", "t", "i", "o", "n">>],
      [keyword |-> <<"d", "r", "o", "n", "e">>,
       project |-> <<"d", "r", "o", "n", "e", "-", "i", "m", "p", "o", "r", "t">>],
      [keyword |-> <<"d", "j", "i">>,
       project |-> <<"d", "r", "o", "n", "e", "-", "i", "m", "p", "o", "r", "t">>],
      [keyword |-> <<"f", "l", "i", "g", "h", "t", " ", "l", "o", "g">>,
       project |-> <<"d", "r", "o", "n", "e", "-", "i", "m", "p", "o", "r", "t">>],
      [keyword |-> <<"e", "m", "a", "i", "l">>,
       project |-> <<"e", "m", "a", "i", "l", "-", "a", "r", "c", "h", "i", "v", "e">>],
      [keyword |-> <<"g", "m", "a", "i", "l">>,
       project |-> <<"e", "m", "a", "i", "l", "-", "a", "r", "c", "h", "i", "v", "e">>],
      [keyword |-> <<"s", "l", "a", "c", "k">>,
       project |-> <<"s", "l", "a", "c", "k", "-", "i", "n", "t", "e", "g", "r", "a", "t", "i", "o", "n">>],
      [keyword |-> <<"n", "e", "w", "s">>,
       project |-> <<"n", "e", "w", "s", "-", "s", "u", "m", "m", "a", "r", "y">>],
      [keyword |-> <<"s", "e", "s", "s", "i", "o", "n", " ", "m", "a", "n", "a", "g", "e", "r">>,
       project |-> <<"c", "l", "a", "u", "d", "e", "-", "s", "e", "s", "s", "i", "o", "n", "-", "m", "a", "n", "a", "g", "e", "r">>],
      [keyword |-> <<"e", "x", "t", "e", "n", "s", "i", "o", "n">>,
       project |-> <<"c", "l", "a", "u", "d", "e", "-", "s", "e", "s", "s", "i", "o", "n", "-", "m", "a", "n", "a", "g", "e", "r">>],
      [keyword |-> <<"v", "s", "c", "o", "d", "e">>,
       project |-> <<"c", "l", "a", "u", "d", "e", "-", "s", "e", "s", "s", "i", "o", "n", "-", "m", "a", "n", "a", "g", "e", "r">>],
      [keyword |-> <<"c", "u", "r", "s", "o", "r">>,
       project |-> <<"c", "l", "a", "u", "d", "e", "-", "s", "e", "s", "s", "i", "o", "n", "-", "m", "a", "n", "a", "g", "e", "r">>],
      [keyword |-> <<"s", "l", "a", "s", "h", " ", "c", "o", "m", "m", "a", "n", "d">>,
       project |-> <<"G", "l", "o", "b", "a", "l">>],
      [keyword |-> <<"f", "r", "o", "n", "t", "m", "a", "t", "t", "e", "r">>,
       project |-> <<"G", "l", "o", "b", "a", "l">>]>>

\* `for (const kw of keywords) if (summaryLower.includes(kw)) return ...`
RECURSIVE anyKeyword(_, _, _)
anyKeyword(summaryLower, keywords, i) ==
    IF i > Len(keywords) THEN FALSE
    ELSE IF includes(summaryLower, keywords[i]) THEN TRUE
    ELSE anyKeyword(summaryLower, keywords, i + 1)

\* the project of the first entry whose keyword occurs, Null when none does
RECURSIVE firstProject(_, _)
firstProject(summaryLower, i) ==
    IF i > Len(knownProjects) THEN Null
    ELSE IF includes(summaryLower, knownProjects[i].keyword) THEN knownProjects[i].project
    ELSE firstProject(summaryLower, i + 1)

\* summary.match(/^([^:]+):/)[1].trim(): what stands before the first colon,
\* when at least one character does
beforeColonAt(summary, i) ==
    IF i <= 1 THEN Null ELSE TrimText(SubSeq(summary, 1, i - 1))

beforeColon(summary) == beforeColonAt(summary, IndexFrom(summary, ":", 1))

\* `beforeColon.length <= 30 && beforeColon.length >= 3`
phraseOrSession(phrase) ==
    IF Len(phrase) <= 30 /\ Len(phrase) >= 3 THEN phrase ELSE SessionLabel

projectOrPhrase(summary, project) ==
    IF project # Null THEN project ELSE phraseOrSession(beforeColon(summary))

\* the global pass taken before the self-improvement pass: the mutant of
\* focusOf
focusOfGlobalFirst(summary, summaryLower) ==
    IF anyKeyword(summaryLower, globalKeywords, 1) THEN GlobalLabel
    ELSE IF anyKeyword(summaryLower, selfImprovementKeywords, 1) THEN SelfImprovementLabel
    ELSE projectOrPhrase(summary, firstProject(summaryLower, 1))

\* the passes over a summary that is not empty
focusOf(summary, summaryLower) ==
    IF anyKeyword(summaryLower, selfImprovementKeywords, 1) THEN SelfImprovementLabel
    ELSE IF anyKeyword(summaryLower, globalKeywords, 1) THEN GlobalLabel
    ELSE projectOrPhrase(summary, firstProject(summaryLower, 1))

\* `if (!summary) return 'Session'`
extractTaskFocus(summary) ==
    IF Falsy(summary) THEN SessionLabel ELSE focusOf(summary, toLowerCase(summary))

(***************************************************************************)
(* SessionNamer: generateDefaultName                                       *)
(***************************************************************************)
Digits == <<"0", "1", "2", "3", "4", "5", "6", "7", "8", "9">>

\* \d
isDigit(c) == \E i \in 1..Len(Digits) : Digits[i] = c
\* [a-f0-9]
isLowerHex(c) == isDigit(c) \/ c \in {"a", "b", "c", "d", "e", "f"}

\* the length of the run of digits from position i on
RECURSIVE digitRun(_, _)
digitRun(s, i) ==
    IF i > Len(s) THEN 0
    ELSE IF isDigit(s[i]) THEN 1 + digitRun(s, i + 1)
    ELSE 0

\* the length of the run of [a-f0-9] from position i on
RECURSIVE hexRun(_, _)
hexRun(s, i) ==
    IF i > Len(s) THEN 0
    ELSE IF isLowerHex(s[i]) THEN 1 + hexRun(s, i + 1)
    ELSE 0

\* session.id.match(/^\d{8}-\d{6}-[a-f0-9]+$/)
matchesDateId(id) ==
    /\ Len(id) >= 17
    /\ digitRun(id, 1) = 8
    /\ id[9] = "-"
    /\ digitRun(id, 10) = 6
    /\ id[16] = "-"
    /\ hexRun(id, 17) = Len(id) - 16

monthNames ==
    <<<<"J", "a", "n">>, <<"F", "e", "b">>, <<"M", "a", "r">>,
      <<"A", "p", "r">>, <<"M", "a", "y">>, <<"J", "u", "n">>,
      <<"J", "u", "l">>, <<"A", "u", "g">>, <<"S", "e", "p">>,
      <<"O", "c", "t">>, <<"N", "o", "v">>, <<"D", "e", "c">>>>

\* a Date is the record of what getMonth, getDate, getHours and getMinutes
\* return; all four are NaN for an Invalid Date
InvalidDate == [month |-> NaN, date |-> NaN, hours |-> NaN, minutes |-> NaN]

\* Number.prototype.toString of a natural number or NaN
RECURSIVE numberToString(_)
numberToString(n) ==
    IF n = NaN THEN <<"N", "a", "N">>
    ELSE IF n < 10 THEN <<Digits[n + 1]>>
    ELSE numberToString(n \div 10) \o <<Digits[(n % 10) + 1]>>

\* padStart(2, '0')
padStart2(s) == IF Len(s) < 2 THEN <<"0">> \o s ELSE s

\* monthNames[date.getMonth()] in a template: 'undefined' for an index NaN
monthOf(date) ==
    IF date.month = NaN THEN <<"u", "n", "d", "e", "f", "i", "n", "e", "d">>
    ELSE monthNames[date.month + 1]

\* the override by the pattern of the session id
overrideFocus(taskFocus, id) ==
    IF taskFocus = SessionLabel /\ matchesDateId(id) THEN MintyLabel ELSE taskFocus

\* `${taskFocus} <U+2022> ${month} ${day}, ${hours}:${mins}`
formatName(taskFocus, date) ==
    taskFocus \o <<" ", "bullet", " ">> \o monthOf(date) \o <<" ">>
        \o numberToString(date.date) \o <<",", " ">>
        \o padStart2(numberToString(date.hours)) \o <<":">>
        \o padStart2(numberToString(date.minutes))

generateDefaultName(session) ==
    formatName(overrideFocus(extractTaskFocus(session.autoGeneratedName), session.id),
               session.startTime)

(***************************************************************************)
(* SpecFocus: extractTaskFocus applied to summaries put together from a    *)
(* few words                                                               *)
(***************************************************************************)
\* most words of a summary of SpecFocus
MaxWords == 3

\* 31 letters without a keyword
LongWord == [i \in 1..31 |-> "z"]

\* words with a keyword of each pass (some capitalised), words without, the
\* colon and the blank
SummaryWords ==
    {<<"S", "k", "i", "l", "l">>, <<"c", "l", "e", "a", "n", "u", "p">>, <<"j", "h", "u">>, <<"B", "l", "a", "m", "e">>,
     <<"f", "i", "x">>, <<"a", "b">>, LongWord, <<":">>, <<" ">>}

RECURSIVE Concat(_)
Concat(ws) == IF ws = <<>> THEN <<>> ELSE Head(ws) \o Concat(Tail(ws))

\* a session without summary has autoGeneratedName undefined
Summaries == {Undefined} \cup {Concat(ws) : ws \in StringsUpTo(SummaryWords, MaxWords)}

FocusInit ==
    /\ fs = {Root}
    /\ call = NoCall
    /\ corpus = [exists |-> FALSE, dirs |-> <<>>]
    /\ result = NoResult
    /\ HostInit

ExtractTaskFocus(summary) ==
    /\ result = NoResult
    /\ result' = [status |-> "ok", op |-> "focus", summary |-> summary,
                  focus |-> extractTaskFocus(summary)]
    /\ UNCHANGED <<corpus, codecVars, hostVars>>

FocusNext ==
    \/ \E summary \in Summaries : ExtractTaskFocus(summary)
    \/ Forget

SpecFocus == FocusInit /\ [][FocusNext]_vars

(***************************************************************************)
(* Claims about the SessionNamer                                           *)
(***************************************************************************)
\* the last call was of this operation
Did(op) == "op" \in DOMAIN result /\ result.op = op

\* word occurs in text
Occurs(word, text) ==
    \E i \in 0..(Len(text) - Len(word)) : SubSeq(text, i + 1, i + Len(word)) = word

OccursAny(words, text) == \E k \in 1..Len(words) : Occurs(words[k], text)

TableHits(text) == {k \in 1..Len(knownProjects) : Occurs(knownProjects[k].keyword, text)}

\* the trimmed text before the first colon when it has 3 to 30 characters
ColonPhrases(text) ==
    {TrimText(SubSeq(text, 1, k - 1)) : k \in {j \in 2..Len(text) :
        /\ text[j] = ":"
        /\ \A h \in 1..(j - 1) : text[h] # ":"
        /\ Len(TrimText(SubSeq(text, 1, j - 1))) \in 3..30}}

\* C13: the category is decided by the first matching pass, in the order
\* self-improvement keywords, global keywords, known-project table (first
\* entry in table order), colon-prefix phrase, 'Session'; a missing or empty
\* summary gives 'Session'
C13_FirstMatchingPass ==
    Did("focus") =>
        LET text == result.summary
            lower == toLowerCase(text)
        IN  IF text = Undefined \/ text = <<>> THEN result.focus = SessionLabel
            ELSE IF OccursAny(selfImprovementKeywords, lower)
                 THEN result.focus = SelfImprovementLabel
            ELSE IF OccursAny(globalKeywords, lower) THEN result.focus = GlobalLabel
            ELSE IF TableHits(lower) # {}
                 THEN result.focus = knownProjects[MinOf(TableHits(lower))].project
            ELSE IF ColonPhrases(text) # {} THEN result.focus \in ColonPhrases(text)
            ELSE result.focus = SessionLabel

\* a summary with a keyword of each of the first three passes was classified
C13_Witness ==
    /\ Did("focus")
    /\ result.summary # Undefined
    /\ OccursAny(selfImprovementKeywords, toLowerCase(result.summary))
    /\ OccursAny(globalKeywords, toLowerCase(result.summary))
    /\ TableHits(toLowerCase(result.summary)) # {}
    /\ result.focus = SelfImprovementLabel

(***************************************************************************)
(* SpecName: generateDefaultName applied to sessions with each kind of     *)
(* summary, id and start time                                              *)
(***************************************************************************)
\* ids that match the pattern and ids that miss it in one place
NameIds ==
    {<<"2", "0", "2", "6", "0", "1", "0", "9", "-", "0", "0", "0", "5", "1", "7", "-", "4", "6", "4", "c">>,
     <<"2", "0", "2", "6", "0", "1", "0", "9", "-", "0", "0", "0", "5", "1", "7", "-", "4", "6", "4", "C">>,
     <<"2", "0", "2", "6", "0", "1", "0", "9", "-", "0", "0", "0", "5", "1", "7", "-">>,
     <<"2", "0", "2", "6", "0", "1", "0", "-", "0", "0", "0", "5", "1", "7", "-", "4", "6", "4", "c">>,
     <<"2", "0", "2", "6", "0", "1", "0", "9", "-", "0", "0", "0", "5", "1", "-", "4", "6", "4", "c">>,
     <<"2", "0", "2", "6", "0", "1", "0", "9", "-", "0", "0", "0", "5", "1", "7", "-", "4", "6", "-", "4", "c">>,
     <<"a", "b", "1", "2", "c", "d", "3", "4", "-", "e", "f", "5", "6">>}

\* start times: the first and last month and day, one- and two-digit hours
\* and minutes, and the Invalid Date that parseSessionFile can return
NameDates ==
    {[month |-> mo, date |-> d, hours |-> h, minutes |-> mi] :
        mo \in {0, 11}, d \in {1, 31}, h \in {0, 9, 23}, mi \in {0, 5, 59}}
    \cup {InvalidDate}

NameSummaries == {Undefined} \cup {Concat(ws) : ws \in StringsUpTo(SummaryWords, 1)}

NameInit ==
    /\ fs = {Root}
    /\ call = NoCall
    /\ corpus = [exists |-> FALSE, dirs |-> <<>>]
    /\ result = NoResult
    /\ HostInit

GenerateDefaultName(session) ==
    /\ result = NoResult
    /\ result' = [status |-> "ok", op |-> "name", session |-> session,
                  name |-> generateDefaultName(session)]
    /\ UNCHANGED <<corpus, codecVars, hostVars>>

NameNext ==
    \/ \E id \in NameIds, summary \in NameSummaries, date \in NameDates :
           GenerateDefaultName([id |-> id, autoGeneratedName |-> summary,
                                startTime |-> date])
    \/ Forget

SpecName == NameInit /\ [][NameNext]_vars

\* 8 digits, '-', 6 digits, '-', one or more of 0-9 and a-f
DateEncoded(id) ==
    /\ Len(id) >= 17
    /\ \A i \in 1..8 : isDigit(id[i])
    /\ id[9] = "-"
    /\ \A i \in 10..15 : isDigit(id[i])
    /\ id[16] = "-"
    /\ \A i \in 17..Len(id) : isLowerHex(id[i])

TwoDigits(n) == <<Digits[(n \div 10) + 1], Digits[(n % 10) + 1]>>

Decimal(n) == IF n < 10 THEN <<Digits[n + 1]>> ELSE TwoDigits(n)

\* the category of the name: 'Minty' exactly when the summary gives
\* 'Session' and the id is date-encoded
CategoryOf(session) ==
    IF extractTaskFocus(session.autoGeneratedName) = SessionLabel /\ DateEncoded(session.id)
    THEN MintyLabel
    ELSE extractTaskFocus(session.autoGeneratedName)

\* C14: generateDefaultName(session) is '<category> <U+2022> <Mon> <day>,
\* <HH>:<MM>' of the session's startTime, with the category of the summary,
\* replaced by 'Minty' exactly when that is 'Session' and the id matches the
\* date-encoded pattern
C14_NameFormat ==
    Did("name") =>
        LET date == result.session.startTime
        IN  /\ date.month \in 0..11
            /\ date.date \in 1..31
            /\ date.hours \in 0..23
            /\ date.minutes \in 0..59
            /\ result.name =
                   CategoryOf(result.session) \o <<" ", "bullet", " ">>
                       \o monthNames[date.month + 1] \o <<" ">>
                       \o Decimal(date.date) \o <<",", " ">>
                       \o TwoDigits(date.hours) \o <<":">> \o TwoDigits(date.minutes)

(***************************************************************************)
(* SpecSearch: searchTranscripts on a corpus of two project directories;   *)
(* the same file name may stand in both                                    *)
(***************************************************************************)
\* most transcript files of the corpus of SpecSearch
MaxTranscripts == 2
\* largest maxResults asked of searchTranscripts
MaxHits == 3

\* transcripts with two matching messages, with one, with none, and with
\* entries that getSessionMessages leaves out
SearchFiles ==
    {<<[PlainEntry("user") EXCEPT !.text = <<"d", "i", "f", "f", "s">>, !.ts = 1],
       [PlainEntry("assistant") EXCEPT !.text = DiffText, !.ts = 1]>>,
     <<[PlainEntry("user") EXCEPT !.text = NoMsg, !.ts = 2],
       [PlainEntry("assistant") EXCEPT !.text = <<"a", " ", "D", "I", "F", "F">>, !.ts = 2]>>,
     <<[PlainEntry("user") EXCEPT !.text = <<"h", "i">>],
       [PlainEntry("assistant") EXCEPT !.text = <<"d", "i", "f">>]>>,
     <<[PlainEntry("user") EXCEPT !.text = NullBlock, !.ts = 2],
       PlainEntry("bad"),
       [PlainEntry("assistant") EXCEPT !.text = <<"d", "i", "f", "f">>, !.ts = 2]>>}

\* a query that matches, one that matches nothing, and the empty query
Queries == {DiffQuery, <<"D", "i", "F", "f">>, <<"x", "y", "z">>, <<>>}

SearchInit ==
    /\ fs = {Root}
    /\ call = NoCall
    /\ corpus = [exists |-> TRUE,
                 dirs |-> <<[name |-> HomeDirName, readable |-> TRUE, files |-> <<>>],
                            [name |-> OtherDirName, readable |-> TRUE, files |-> <<>>]>>]
    /\ result = NoResult
    /\ HostInit

\* a session leaves the transcript <id>.jsonl in the directory of its project
AddTranscript(d, id, lines) ==
    /\ result = NoResult
    /\ FileCount(corpus) < MaxTranscripts
    /\ ~holdsSessionFile(corpus.dirs[d], id)
    /\ corpus' = [corpus EXCEPT !.dirs[d].files = Append(@, NewFile(id, FALSE, lines, TRUE))]
    /\ UNCHANGED <<result, codecVars, hostVars>>

SearchNext ==
    \/ \E d \in {1, 2}, id \in SessionIds, lines \in SearchFiles : AddTranscript(d, id, lines)
    \/ \E query \in Queries, n \in 0..MaxHits : SearchTranscripts(query, n)
    \/ Forget

SpecSearch == SearchInit /\ [][SearchNext]_vars

(***************************************************************************)
(* Claims about TranscriptSearch                                           *)
(***************************************************************************)
Searched == Did("search") /\ result.status = "ok"

\* the message examined last is the one of the last hit
StoppedAtLastHit ==
    /\ result.examined # <<>>
    /\ result.hits # <<>>
    /\ result.examined[Len(result.examined)] =
           [rank |-> result.hits[Len(result.hits)].rank,
            line |-> result.hits[Len(result.hits)].message.line]

\* C15: for every maxResults >= 0, searchTranscripts returns at most
\* maxResults hits, and examines no message after the one that completed
\* them
C15_AtMostMaxResults ==
    Searched =>
        /\ Len(result.hits) <= result.maxResults
        /\ Len(result.hits) >= result.maxResults =>
               (result.examined = <<>> \/ StoppedAtLastHit)

\* the project directory a session was listed from: its files give no cwd,
\* so projectPath is the decoded name of the directory
OwnDirs(session) ==
    {d \in 1..Len(corpus.dirs) :
        /\ decodeProjectPath(corpus.dirs[d].name) = session.projectPath
        /\ holdsSessionFile(corpus.dirs[d], session.id)}

\* the messages of a session's own transcript
OwnMessages(session) ==
    LET d == CHOOSE d \in OwnDirs(session) : TRUE
    IN  SeqToSet(messagesFrom(session.id,
                              nonBlankLines(sessionFileIn(corpus.dirs[d], session.id)), 1))

\* lowercased text contains lowercased query
Contains(text, query) == Occurs(toLowerCase(query), toLowerCase(text))

\* the matching messages of the listed sessions, each with the place of its
\* session in the list
MatchingMessages ==
    {x \in [rank : 1..Len(result.sessions),
            message : UNION {OwnMessages(result.sessions[k]) :
                                k \in 1..Len(result.sessions)}] :
        /\ x.message \in OwnMessages(result.sessions[x.rank])
        /\ Contains(x.message.content, result.query)}

HitMessages == {[rank |-> result.hits[i].rank, message |-> result.hits[i].message] :
                   i \in 1..Len(result.hits)}

\* C16: when fewer than maxResults hits are returned, the hits are exactly
\* the messages of the listed sessions' transcripts whose lowercased text
\* contains the lowercased query, one hit for each
C16_ExactHits ==
    (Searched /\ Len(result.hits) < result.maxResults) =>
        /\ HitMessages = MatchingMessages
        /\ Len(result.hits) = Cardinality(MatchingMessages)

\* C17: hits keep the order of the sessions in the list of getSessions, and
\* within a session the order of the messages in the file: of two hits the
\* earlier one is of an earlier session of the list, or of the same session
\* and an earlier line
C17_HitOrder ==
    Searched =>
        /\ \A i \in 1..Len(result.hits) :
               result.hits[i].session = result.sessions[result.hits[i].rank]
        /\ \A i, j \in 1..Len(result.hits) :
               i < j =>
                   \/ result.hits[i].rank < result.hits[j].rank
                   \/ /\ result.hits[i].rank = result.hits[j].rank
                      /\ result.hits[i].message.line < result.hits[j].message.line

\* hits of two sessions were returned, two of them of the same session
C17_Witness ==
    /\ Searched
    /\ \E i, j \in 1..Len(result.hits) : result.hits[i].rank < result.hits[j].rank
    /\ \E i, j \in 1..Len(result.hits) :
           /\ i < j
           /\ result.hits[i].rank = result.hits[j].rank
    /\ \E i, j \in 1..Len(result.sessions) :
           result.sessions[i].lastActivityTime > result.sessions[j].lastActivityTime

(***************************************************************************)
(* SpecContext: the context of a hit, for messages with the match at each  *)
(* distance from the two ends of the text                                  *)
(***************************************************************************)
\* n letters without a match
Filler(n) == [i \in 1..n |-> "x"]

\* lengths of the text before and after the match: none, and one less than,
\* equal to and one more than the window of 50
FillerLengths == {0, ContextChars - 1, ContextChars, ContextChars + 1}

\* more capital I with a dot above than the window is wide
DottedRun == [i \in 1..(ContextChars + 1) |-> "Idot"]

\* messages that hold "Diff", once or twice, after nothing, after a capital
\* I with a dot above or after a run of them
ContextTexts ==
    {head \o Filler(n) \o DiffText \o Filler(k) \o tail :
        head \in {<<>>, <<"Idot">>, DottedRun}, n \in FillerLengths,
        k \in FillerLengths, tail \in {<<>>, DiffQuery}}

ContextQueries == {DiffQuery, <<"D", "I", "F", "F">>, <<"f", "x">>, <<"Idot">>, <<>>}

ContextInit ==
    /\ fs = {Root}
    /\ call = NoCall
    /\ corpus = [exists |-> FALSE, dirs |-> <<>>]
    /\ result = NoResult
    /\ HostInit

\* the body of `if (message.content.toLowerCase().includes(queryLower))`
MatchContext(content, query) ==
    /\ result = NoResult
    /\ matches([content |-> content], query)
    /\ result' = [status |-> "ok", op |-> "context", content |-> content,
                  query |-> query, matchContext |-> matchContext(content, query)]
    /\ UNCHANGED <<corpus, codecVars, hostVars>>

ContextNext ==
    \/ \E content \in ContextTexts, query \in ContextQueries : MatchContext(content, query)
    \/ Forget

SpecContext == ContextInit /\ [][ContextNext]_vars

\* the places (counted from 0) where the text reads as the query when case
\* is ignored
OccurrencesOf(query, text) ==
    {i \in 0..Len(text) :
        \E n \in 0..(Len(text) - i) :
            toLowerCase(SubSeq(text, i + 1, i + n)) = toLowerCase(query)}

\* C18: matchContext is the slice of the message text from max(0, idx-50) to
\* min(length, idx+|query|+50), idx the first occurrence of the query with
\* case ignored, with '...' in front exactly when the slice does not start
\* the text and '...' behind exactly when it does not end it; it holds the
\* matched occurrence and at most |query|+100 characters of the text
C18_ContextWindow ==
    Did("context") =>
        LET text == result.content
            idx == MinOf(OccurrencesOf(result.query, text))
            from == IF idx - 50 > 0 THEN idx - 50 ELSE 0
            to == IF idx + Len(result.query) + 50 < Len(text)
                  THEN idx + Len(result.query) + 50 ELSE Len(text)
        IN  /\ result.matchContext =
                   (IF from > 0 THEN Ellipsis ELSE <<>>)
                       \o SubSeq(text, from + 1, to)
                       \o (IF to < Len(text) THEN Ellipsis ELSE <<>>)
            /\ to - from <= Len(result.query) + 100
            /\ from <= idx /\ idx <= to

(***************************************************************************)
(* SessionManager: the terminals of the sessions                           *)
(* (src/src/sessionManager.ts) and the openSessionById command             *)
(***************************************************************************)
\* the terminals a window holds at most in the model
MaxTerminals == 1

\* `historyParser.getSessions(100)` of the openSessionById command
OpenSessionLimit == 100

\* activeTerminals.has(sessionId)
isSessionRunning(active, sessionId) == sessionId \in DOMAIN active

\* activeTerminals.set(session.id, { terminal, sessionId })
trackTerminal(active, sessionId, terminal) ==
    [k \in DOMAIN active \cup {sessionId} |->
        IF k = sessionId THEN terminal ELSE active[k]]

\* the onDidCloseTerminal listener: the first key that holds the terminal is
\* deleted
untrackTerminal(active, terminal) ==
    LET keys == {k \in DOMAIN active : active[k] = terminal}
    IN  IF keys = {} THEN active
        ELSE [k \in DOMAIN active \ {CHOOSE k \in keys : TRUE} |-> active[k]]

\* vscode.window.createTerminal: a terminal that was not open
newTerminal(open) == CHOOSE t \in 1..MaxTerminals : t \notin DOMAIN open

\* createTerminal, terminal.show() and terminal.sendText('claude --resume <id>')
createTerminal(open, terminal, sessionId) ==
    [t \in DOMAIN open \cup {terminal} |-> IF t = terminal THEN sessionId ELSE open[t]]

\* the terminal leaves vscode.window.terminals
closeTerminal(open, terminal) == [t \in DOMAIN open \ {terminal} |-> open[t]]

\* sessions.find(s => s.id === sessionId)
knowsSession(sessions, sessionId) ==
    \E i \in DOMAIN sessions : sessions[i].id = sessionId

\* the command on the sessions listed: an exception of getSessions rejects
\* it, an unknown id is reported, a running session is focused and any other
\* is resumed
openStatus(listed, sessionId, active) ==
    IF listed.status = "throw" THEN "throw"
    ELSE IF ~knowsSession(listed.sessions, sessionId) THEN "notFound"
    ELSE IF isSessionRunning(active, sessionId) THEN "focused"
    ELSE "resumed"

\* what the command does to the terminals: resumeSession creates one, shows
\* it and tracks it
openEffect(status, sessionId) ==
    /\ opened' = [op |-> "open", sessionId |-> sessionId, status |-> status]
    /\ IF status = "resumed"
       THEN /\ Cardinality(DOMAIN terminals) < MaxTerminals
            /\ terminals' = createTerminal(terminals, newTerminal(terminals), sessionId)
            /\ activeTerminals' =
                   trackTerminal(activeTerminals, sessionId, newTerminal(terminals))
       ELSE UNCHANGED <<terminals, activeTerminals>>

\* the callback of claudeSessions.openSessionById; a session id of the model
\* is never the empty string
openSessionById(sessionId) ==
    openEffect(openStatus(getSessions(OpenSessionLimit), sessionId, activeTerminals),
               sessionId)

\* the user closes a terminal
CloseTerminal(terminal) ==
    /\ terminal \in DOMAIN terminals
    /\ terminals' = closeTerminal(terminals, terminal)
    /\ activeTerminals' = untrackTerminal(activeTerminals, terminal)
    /\ UNCHANGED <<fs, call, corpus, result, panel, opened, treeVars>>

(***************************************************************************)
(* SearchProvider: the search panel and its webview                        *)
(* (src/src/searchProvider.ts)                                             *)
(***************************************************************************)
\* `maxResults: number = 100` of searchTranscripts
DefaultMaxResults == 100

\* the messages the webview and the host have in flight at most
MaxInbox == 1

\* the 'message' listener of the webview: 'searching' changes the status line
\* only, 'results' renders the results of the message, 'clear' empties both
showSearching(view) == [view EXCEPT !.status = "searching"]
showResults(query, results) ==
    [status |-> "results", query |-> query, results |-> results]
showClear == [status |-> "empty", query |-> <<>>, results |-> <<>>]

\* what the 'results' message carries of each hit (the session name and the
\* timestamp are left out of the model)
resultsShown(hits) ==
    [i \in DOMAIN hits |->
        [sessionId |-> hits[i].session.id, role |-> hits[i].message.role,
         context |-> hits[i].matchContext]]

\* clear()
clear(p) ==
    [p EXCEPT !.currentQuery = <<>>, !.searchResults = <<>>, !.view = showClear]

\* search(query) up to its await: a call made while a search is running
\* returns at once
searchBegin(p, query) ==
    IF p.isSearching THEN p
    ELSE IF TrimText(query) = <<>> THEN clear(p)
    ELSE [p EXCEPT !.currentQuery = query, !.isSearching = TRUE,
                   !.query = query, !.view = showSearching(@)]

\* search(query) after its await: the results are stored and posted, and the
\* finally block ends the search also when searchTranscripts threw
searchEnd(p, found) ==
    IF found.status = "throw"
    THEN [p EXCEPT !.isSearching = FALSE, !.query = <<>>]
    ELSE [p EXCEPT !.searchResults = found.hits,
                   !.view = showResults(p.query, resultsShown(found.hits)),
                   !.isSearching = FALSE, !.query = <<>>]

\* vscode.postMessage of the webview
post(p, message) == [p EXCEPT !.inbox = Append(@, message)]

\* the callback of the debounce timer
debounced(p, query) ==
    IF Len(TrimText(query)) >= 2
    THEN post(p, [type |-> "search", query |-> TrimText(query)])
    ELSE IF TrimText(query) = <<>> THEN post(p, [type |-> "clear"])
    ELSE p

\* the 'input' listener: the timer is set anew with the value of the input
Input(text) ==
    /\ panel' = [panel EXCEPT !.input = text, !.debounceTimer = <<text>>]
    /\ UNCHANGED <<fs, call, corpus, result, terminals, activeTerminals, opened, treeVars>>

\* 300 ms have passed since the last input
DebounceFires ==
    /\ panel.debounceTimer # <<>>
    /\ Len(panel.inbox) < MaxInbox
    /\ panel' = debounced([panel EXCEPT !.debounceTimer = <<>>],
                          panel.debounceTimer[1])
    /\ UNCHANGED <<fs, call, corpus, result, terminals, activeTerminals, opened, treeVars>>

\* the Escape key and the clear button: the input is emptied and 'clear' is
\* posted; the timer keeps running
ClearInput ==
    /\ Len(panel.inbox) < MaxInbox
    /\ panel' = post([panel EXCEPT !.input = <<>>], [type |-> "clear"])
    /\ UNCHANGED <<fs, call, corpus, result, terminals, activeTerminals, opened, treeVars>>

\* a click on the i-th result shown
ClickResult(i) ==
    /\ i \in DOMAIN panel.view.results
    /\ Len(panel.inbox) < MaxInbox
    /\ panel' = post(panel, [type |-> "openSession",
                             sessionId |-> panel.view.results[i].sessionId])
    /\ UNCHANGED <<fs, call, corpus, result, terminals, activeTerminals, opened, treeVars>>

\* onDidReceiveMessage, case 'search'; requested keeps the last request made
ReceiveSearch ==
    /\ panel.inbox # <<>>
    /\ Head(panel.inbox).type = "search"
    /\ panel' = [searchBegin(panel, Head(panel.inbox).query) EXCEPT
                     !.inbox = Tail(panel.inbox),
                     !.requested = Head(panel.inbox)]
    /\ UNCHANGED <<fs, call, corpus, result, terminals, activeTerminals, opened, treeVars>>

\* onDidReceiveMessage, case 'clear'
ReceiveClear ==
    /\ panel.inbox # <<>>
    /\ Head(panel.inbox).type = "clear"
    /\ panel' = [clear(panel) EXCEPT !.inbox = Tail(panel.inbox),
                                     !.requested = Head(panel.inbox)]
    /\ UNCHANGED <<fs, call, corpus, result, terminals, activeTerminals, opened, treeVars>>

\* onDidReceiveMessage, case 'openSession'
ReceiveOpenSession ==
    /\ panel.inbox # <<>>
    /\ Head(panel.inbox).type = "openSession"
    /\ panel' = [panel EXCEPT !.inbox = Tail(panel.inbox)]
    /\ openSessionById(Head(panel.inbox).sessionId)
    /\ UNCHANGED <<fs, call, corpus, result, treeVars>>

\* searchTranscripts returns to the search that awaits it
SearchReturns ==
    /\ panel.isSearching
    /\ panel' = searchEnd(panel,
                          searchTranscripts(corpus, panel.query, DefaultMaxResults))
    /\ UNCHANGED <<fs, call, corpus, result, terminals, activeTerminals, opened, treeVars>>

(***************************************************************************)
(* The panel over two transcripts that hold the text "Diff"                *)
(***************************************************************************)
PanelInputs ==
    {<<>>, <<"d">>, DiffQuery, <<" ", "x", "y">>}

PanelInit ==
    /\ fs = {Root}
    /\ call = NoCall
    /\ corpus = [exists |-> TRUE,
                 dirs |-> <<[name |-> HomeDirName, readable |-> TRUE,
                             files |-> <<NewFile(1, FALSE, CorruptLines, TRUE)>>],
                            [name |-> OtherDirName, readable |-> TRUE,
                             files |-> <<NewFile(2, FALSE, CorruptLines, TRUE)>>]>>]
    /\ result = NoResult
    /\ HostInit

PanelNext ==
    \/ \E text \in PanelInputs : Input(text)
    \/ DebounceFires
    \/ ClearInput
    \/ \E i \in DOMAIN panel.view.results : ClickResult(i)
    \/ ReceiveSearch
    \/ ReceiveClear
    \/ ReceiveOpenSession
    \/ SearchReturns
    \/ \E t \in 1..MaxTerminals : CloseTerminal(t)

SpecPanel == PanelInit /\ [][PanelNext]_vars

\* no timer is set, no message is in flight and no search is running
Quiescent ==
    /\ panel.debounceTimer = <<>>
    /\ panel.inbox = <<>>
    /\ ~panel.isSearching

\* the panel holds and shows the results of the query
ShowsResultsOf(query) ==
    /\ panel.currentQuery = query
    /\ panel.view.status = "results"
    /\ panel.view.query = query
    /\ panel.view.results =
           resultsShown(searchTranscripts(corpus, query, DefaultMaxResults).hits)

\* C19: once the panel is quiescent and the last request made of it was a
\* search, it holds and shows the results of the query of that request,
\* also when the request was made while an earlier search was running
C19_NewestQueryShown ==
    (Quiescent /\ panel.requested.type = "search")
        => ShowsResultsOf(panel.requested.query)

(***************************************************************************)
(* Opening the hits of a search over more sessions than the command lists  *)
(***************************************************************************)
\* the project directories of the corpus and the transcripts in each
ManyDirs == 17
ManyFiles == 6

\* the directory name -a, -aa, ... of the k-th project
ManyDirName(k) == <<"-">> \o [j \in 1..k |-> "a"]

\* the transcript of session id: a user message written at time id, which
\* holds "Diff" in the sessions that match, and the answer to it
ManyFile(id, matching) ==
    NewFile(id, FALSE,
            <<[PlainEntry("user") EXCEPT
                   !.text = IF id \in matching THEN DiffText ELSE <<"h", "i">>,
                   !.ts = id],
              [PlainEntry("assistant") EXCEPT !.text = <<"o", "k">>, !.ts = id]>>,
            TRUE)

ManyCorpus(matching) ==
    [exists |-> TRUE,
     dirs |-> [k \in 1..ManyDirs |->
                  [name |-> ManyDirName(k), readable |-> TRUE,
                   files |-> [i \in 1..ManyFiles |->
                                 ManyFile((k - 1) * ManyFiles + i, matching)]]]]

\* the sessions that may hold the text: the oldest ones, the one that is the
\* last within OpenSessionLimit, and the newest
ManyMatching ==
    {1, 2, ManyDirs * ManyFiles - OpenSessionLimit + 1, ManyDirs * ManyFiles}

\* the last activity times are distinct, so every stable sort gives the
\* order that arraySort gives
OpenInit ==
    /\ fs = {Root}
    /\ call = NoCall
    /\ \E matching \in SUBSET ManyMatching : corpus = ManyCorpus(matching)
    /\ result = NoResult
    /\ HostInit

\* the i-th result of the search is clicked: the webview posts openSession
\* with its session id and the host runs the command
OpenHit(i) ==
    /\ Did("search")
    /\ result.status = "ok"
    /\ i \in DOMAIN result.hits
    /\ openSessionById(result.hits[i].session.id)
    /\ UNCHANGED <<fs, call, corpus, result, panel, treeVars>>

OpenNext ==
    \/ SearchTranscripts(DiffQuery, DefaultMaxResults)
    \/ \E i \in 1..Cardinality(ManyMatching) : OpenHit(i)
    \/ \E t \in 1..MaxTerminals : CloseTerminal(t)
    \/ Forget

SpecOpen == OpenInit /\ [][OpenNext]_vars

\* C20: the command run for a hit of a search over the unchanged corpus
\* finds the session and focuses or resumes it; it neither reports
\* 'Session not found' nor fails
C20_HitOpens ==
    opened.op = "open" => opened.status \in {"focused", "resumed"}

(***************************************************************************)
(* PathCodec: the calls findValidPath makes, over names of three tokens    *)
(***************************************************************************)
\* the calls of findValidPath that the call with these arguments makes,
\* itself included: the second branch is taken when the first returned null
RECURSIVE findValidPathCalls(_, _, _)
findValidPathCalls(parts, index, currentPath) ==
    {[index |-> index, currentPath |-> currentPath]}
    \cup IF index > Len(parts) THEN {}
         ELSE findValidPathCalls(parts, index + 1, pathJoin(currentPath, parts[index]))
              \cup IF /\ currentPath # Root
                      /\ findValidPath(parts, index + 1,
                                       pathJoin(currentPath, parts[index])) = Null
                   THEN findValidPathCalls(
                            parts, index + 1,
                            pathJoin(pathDirname(currentPath),
                                     pathBasename(currentPath) \o <<"-">> \o parts[index]))
                   ELSE {}

\* the directories that may exist, and the directories the sessions ran in
PruneDirs ==
    {<<"/", "a">>, <<"/", "a", "/", "b">>, <<"/", "a", "-", "b">>, <<"/", "b">>}
PrunePaths ==
    {<<"/", "a">>, <<"/", "a", "/", "b">>, <<"/", "a", "-", "b">>, <<"/", "b">>,
     <<"/", "a", "/", "b", "/", "a">>, <<"/", "a", "-", "b", "/", "a">>,
     <<"/", "a", "/", "b", "-", "a">>, <<"/", "b", "/", "b", "/", "a">>}

PruneInit ==
    /\ \E dirs \in SUBSET PruneDirs : fs = {Root} \cup UNION {Ancestors(d) : d \in dirs}
    /\ call = NoCall
    /\ corpus = [exists |-> FALSE, dirs |-> <<>>]
    /\ result = NoResult
    /\ HostInit

PruneNext ==
    \/ \E p \in PrunePaths : RoundTrip(p)
    \/ Return

SpecPrune == PruneInit /\ [][PruneNext]_vars

\* C22: every call of findValidPath that has tokens left, and so recurses,
\* is made on a partial path whose prefix (the directory above its last
\* segment, which a later token may still extend) exists
C22_PrunesMissingPrefix ==
    call # NoCall =>
        \A c \in findValidPathCalls(TokensOf(call.path), 1, Root) :
            c.index <= Len(TokensOf(call.path))
                => existsSync(pathDirname(c.currentPath))

(***************************************************************************)
(* Claims about transcripts that share a file name                         *)
(***************************************************************************)
\* C23: the message of every hit was read from the transcript of the hit's
\* session, the file the session was listed from, also when another
\* project directory holds a transcript of the same name
C23_HitFromOwnTranscript ==
    Searched =>
        \A i \in 1..Len(result.hits) :
            result.hits[i].message \in OwnMessages(result.hits[i].session)

(***************************************************************************)
(* Claims about the two readings of a transcript                           *)
(***************************************************************************)
\* the file holds a summary entry whose summary is not empty
HasSummaryEntry(file) ==
    \E e \in SeqToSet(EntriesOf(file)) : e.kind = "summary" /\ e.summary # ""

\* C24: for every session that getSessions returned for a file that holds a
\* summary entry, autoGeneratedName is the summary that getSessionSummary
\* returns for the id of the session
C24_SummariesAgree ==
    (Called /\ result.status = "ok") =>
        \A f \in FilesOf(corpus) : \A s \in SessionsFor(f) :
            HasSummaryEntry(f) =>
                s.autoGeneratedName = getSessionSummary(corpus, s.id).summary

\* C25: for every session that getSessions returned, messageCount is the
\* number of messages that getSessionMessages returns for the id of the
\* session on the same corpus
C25_CountIsMessages ==
    (Called /\ result.status = "ok") =>
        \A i \in 1..Len(result.sessions) :
            result.sessions[i].messageCount =
                Len(getSessionMessages(corpus, result.sessions[i].id).messages)

(***************************************************************************)
(* Claims about the warmup rule                                            *)
(***************************************************************************)
\* parseSessionFile returned null for the file at `firstUserMessage === 'Warmup'`
ExcludedByWarmup(file) ==
    /\ file.readable
    /\ nonBlankLines(file) # <<>>
    /\ warmupSkip(processLines(InitAcc, nonBlankLines(file)))

\* C30: getSessions excludes a file by the warmup rule only if the first user
\* message of the file in file order has the trimmed text "Warmup"; a file
\* whose first user message has another text, the empty text included, is
\* not excluded by the rule, whatever its later user messages say
C30_WarmupOnlyFirst ==
    (Called /\ result.status = "ok") =>
        \A f \in FilesOf(corpus) :
            (ExcludedByWarmup(f) /\ SessionsFor(f) = {}) => IsWarmupFile(f)

(***************************************************************************)
(* SpecTable: extractTaskFocus on summaries built around each keyword of   *)
(* the known-project table                                                 *)
(***************************************************************************)
\* what stands before and after the keyword in a summary
TablePrefixes == {<<>>, <<"f", "i", "x", " ">>, <<"A", "b", ":", " ">>}
TableSuffixes == {<<>>, <<" ", "a", "b">>, <<":">>}

TableSummaries ==
    {pre \o knownProjects[k].keyword \o suf :
        k \in 1..Len(knownProjects), pre \in TablePrefixes, suf \in TableSuffixes}

TableInit ==
    /\ fs = {Root}
    /\ call = NoCall
    /\ corpus = [exists |-> FALSE, dirs |-> <<>>]
    /\ result = NoResult
    /\ HostInit

TableNext ==
    \/ \E summary \in TableSummaries : ExtractTaskFocus(summary)
    \/ Forget

SpecTable == TableInit /\ [][TableNext]_vars

\* the summary is classified by entry k of the table: no keyword of the two
\* passes before the table occurs in it, and k is the first entry of the
\* table whose keyword does
DecidedByEntry(k, text) ==
    /\ ~OccursAny(selfImprovementKeywords, toLowerCase(text))
    /\ ~OccursAny(globalKeywords, toLowerCase(text))
    /\ TableHits(toLowerCase(text)) # {}
    /\ MinOf(TableHits(toLowerCase(text))) = k

\* C29: every keyword of the known-project table is effective: for each entry
\* some summary that contains its keyword is classified as its project
\* because of that entry.  A summary that contains the keyword contains
\* every keyword that the keyword itself contains, so an entry is effective
\* exactly when the summary that is the keyword alone is classified by it
C29_KeywordEffective ==
    Did("focus") =>
        \A k \in 1..Len(knownProjects) :
            result.summary = knownProjects[k].keyword =>
                /\ DecidedByEntry(k, result.summary)
                /\ result.focus = knownProjects[k].project

(***************************************************************************)
(* Claims about clear() of the search panel                                *)
(***************************************************************************)
\* C26: after clear() the panel holds and shows no results until a new search
\* is requested: whenever currentQuery is empty, searchResults is empty, and
\* while the last request made of the panel is 'clear' the webview was not
\* sent 'results', also when clear() ran while a search was in flight
C26_ClearedHoldsNothing ==
    /\ panel.currentQuery = <<>> => panel.searchResults = <<>>
    /\ panel.requested.type = "clear" => panel.view.status # "results"

(***************************************************************************)
(* SpecTerminals: resumeSession calls and closed terminals on one          *)
(* SessionManager                                                          *)
(***************************************************************************)
\* the terminals the window holds at most while sessions are resumed
MaxResumed == 4

\* resumeSession(session): a terminal is created for the session and stored
\* under its id, in place of what was stored under it
resumeSession(sessionId, terminal) ==
    /\ terminals' = createTerminal(terminals, terminal, sessionId)
    /\ activeTerminals' = trackTerminal(activeTerminals, sessionId, terminal)

ResumeSession(sessionId) ==
    /\ Cardinality(DOMAIN terminals) < MaxResumed
    /\ resumeSession(sessionId,
                     CHOOSE t \in 1..MaxResumed : t \notin DOMAIN terminals)
    /\ UNCHANGED <<fs, call, corpus, result, panel, opened, treeVars>>

TerminalsInit ==
    /\ fs = {Root}
    /\ call = NoCall
    /\ corpus = [exists |-> FALSE, dirs |-> <<>>]
    /\ result = NoResult
    /\ HostInit

TerminalsNext ==
    \/ \E sessionId \in SessionIds : ResumeSession(sessionId)
    \/ \E t \in 1..MaxResumed : CloseTerminal(t)

SpecTerminals == TerminalsInit /\ [][TerminalsNext]_vars

\* the open terminals that resumeSession created for the session
TerminalsOf(sessionId) == {t \in DOMAIN terminals : terminals[t] = sessionId}

\* C28: after any resumeSession calls and closed terminals isSessionRunning(id)
\* is true exactly when a terminal that resumeSession created for id is
\* open; no tracked entry holds a closed terminal and every open terminal of
\* a session is tracked
C28_TrackedIffOpen ==
    /\ \A id \in SessionIds :
           isSessionRunning(activeTerminals, id) <=> TerminalsOf(id) # {}
    /\ \A id \in DOMAIN activeTerminals : activeTerminals[id] \in DOMAIN terminals
    /\ \A t \in DOMAIN terminals :
           \E id \in DOMAIN activeTerminals : activeTerminals[id] = t

(***************************************************************************)
(* MetadataManager: the metadata the extension stores per session id       *)
(* (src/src/metadataManager.ts)                                            *)
(***************************************************************************)
\* map[key] = value
setKey(map, key, value) ==
    [k \in DOMAIN map \cup {key} |-> IF k = key THEN value ELSE map[k]]

\* delete map[key]
deleteKey(map, key) == [k \in DOMAIN map \ {key} |-> map[k]]

setCustomName(md, sessionId, name) ==
    [md EXCEPT !.customNames = setKey(@, sessionId, name)]

setAutoName(md, sessionId, name) ==
    [md EXCEPT !.autoNames = setKey(@, sessionId, name)]

setSummary(md, sessionId, summary) ==
    [md EXCEPT !.summaries = setKey(@, sessionId, summary)]

recordFork(md, childSessionId, parentSessionId) ==
    [md EXCEPT !.forkRelations = setKey(@, childSessionId, parentSessionId)]

\* Object.entries(forkRelations).filter(([_, parent]) => parent === id)
getChildSessions(md, parentSessionId) ==
    {child \in DOMAIN md.forkRelations : md.forkRelations[child] = parentSessionId}

\* the five deletes of removeSession
removeSession(md, sessionId) ==
    [md EXCEPT !.customNames = deleteKey(@, sessionId),
               !.autoNames = deleteKey(@, sessionId),
               !.summaries = deleteKey(@, sessionId),
               !.forkRelations = deleteKey(@, sessionId),
               !.archived = deleteKey(@, sessionId)]

\* metadata.archived[sessionId] = true
archiveSession(md, sessionId) == [md EXCEPT !.archived = setKey(@, sessionId, TRUE)]

unarchiveSession(md, sessionId) == [md EXCEPT !.archived = deleteKey(@, sessionId)]

\* metadata.archived?.[sessionId] ?? false
isArchived(md, sessionId) == sessionId \in DOMAIN md.archived /\ md.archived[sessionId]

setCustomFolder(md, sessionId, folderName) ==
    [md EXCEPT !.customFolders = setKey(@, sessionId, folderName)]

\* metadata.customFolders?.[sessionId] || null
getCustomFolder(md, sessionId) ==
    IF sessionId \in DOMAIN md.customFolders /\ md.customFolders[sessionId] # <<>>
    THEN md.customFolders[sessionId] ELSE Null

removeCustomFolder(md, sessionId) ==
    [md EXCEPT !.customFolders = deleteKey(@, sessionId)]

\* a method of the MetadataManager ran: the stored metadata is replaced, and
\* the call is kept in result
Stored(op, sessionId, md) ==
    /\ metadata' = md
    /\ result' = [status |-> "ok", op |-> op, sessionId |-> sessionId]
    /\ UNCHANGED <<fs, call, corpus, panel, terminals, activeTerminals, opened,
                   config, tree>>

SetCustomName(sessionId, name) ==
    Stored("setCustomName", sessionId, setCustomName(metadata, sessionId, name))

SetAutoName(sessionId, name) ==
    Stored("setAutoName", sessionId, setAutoName(metadata, sessionId, name))

SetSummary(sessionId, summary) ==
    Stored("setSummary", sessionId, setSummary(metadata, sessionId, summary))

RecordFork(childSessionId, parentSessionId) ==
    Stored("recordFork", childSessionId,
           recordFork(metadata, childSessionId, parentSessionId))

RemoveSession(sessionId) ==
    Stored("removeSession", sessionId, removeSession(metadata, sessionId))

ArchiveSession(sessionId) ==
    Stored("archiveSession", sessionId, archiveSession(metadata, sessionId))

UnarchiveSession(sessionId) ==
    Stored("unarchiveSession", sessionId, unarchiveSession(metadata, sessionId))

SetCustomFolder(sessionId, folderName) ==
    Stored("setCustomFolder", sessionId, setCustomFolder(metadata, sessionId, folderName))

RemoveCustomFolder(sessionId) ==
    Stored("removeCustomFolder", sessionId, removeCustomFolder(metadata, sessionId))

(***************************************************************************)
(* SpecMetadata: the methods of one MetadataManager on two session ids     *)
(***************************************************************************)
MetaName == <<"n">>
MetaFolder == <<"W", "o", "r", "k">>

MetadataInit ==
    /\ fs = {Root}
    /\ call = NoCall
    /\ corpus = [exists |-> FALSE, dirs |-> <<>>]
    /\ result = NoResult
    /\ HostInit

MetadataNext ==
    \E sessionId \in SessionIds :
        \/ SetCustomName(sessionId, MetaName)
        \/ SetAutoName(sessionId, MetaName)
        \/ SetSummary(sessionId, "S1")
        \/ \E parent \in SessionIds : RecordFork(sessionId, parent)
        \/ RemoveSession(sessionId)
        \/ ArchiveSession(sessionId)
        \/ UnarchiveSession(sessionId)
        \/ SetCustomFolder(sessionId, MetaFolder)
        \/ RemoveCustomFolder(sessionId)

SpecMetadata == MetadataInit /\ [][MetadataNext]_vars

\* the maps of the stored metadata that have the id as a key
MapsHolding(md, sessionId) ==
    {f \in DOMAIN md : sessionId \in DOMAIN md[f]}

\* C27: after removeSession(id) the stored metadata holds no reference to id:
\* id is a key of none of customNames, autoNames, summaries, forkRelations,
\* archived and customFolders, and no fork relation names id as the parent
C27_NoReferenceLeft ==
    Did("removeSession") =>
        /\ MapsHolding(metadata, result.sessionId) = {}
        /\ getChildSessions(metadata, result.sessionId) = {}

(***************************************************************************)
(* SessionProvider: the tree of folders and sessions                       *)
(* (src/unnamed/part_002) and the archive commands (src/unnamed/part_001)  *)
(***************************************************************************)
\* `5 * 60 * 1000` of isSessionActive; the times of the model count minutes
ActiveWindow == 5

\* `config.get('maxSessionsToShow') || 50`
FallbackMaxSessions == 50

\* Date.now() - session.lastActivityTime.getTime() < 5 * 60 * 1000; the
\* difference with an Invalid Date is NaN, which is less than nothing
isSessionActive(session, now) ==
    /\ session.lastActivityTime # NaN
    /\ now - session.lastActivityTime < ActiveWindow

\* the texts that the summaries S1 and S2 of the transcripts stand for
summaryText(summary) ==
    IF summary = "S1" THEN <<"j", "h", "u">>
    ELSE IF summary = "S2" THEN <<"S", "k", "i", "l", "l", ":", " ", "a">>
    ELSE Undefined

\* the Date of a time of the model
dateOf(ts) ==
    IF ts = NaN THEN InvalidDate
    ELSE [month |-> 0, date |-> 1, hours |-> 0, minutes |-> ts]

\* the session as generateDefaultName reads it: the id is the name of the
\* file, the summary a text and the start time a Date
namedSession(session) ==
    [id |-> numberToString(session.id),
     autoGeneratedName |-> summaryText(session.autoGeneratedName),
     startTime |-> dateOf(session.startTime)]

\* defaultName.split(' <U+2022> ')[0]
splitBullet(name) ==
    IF indexOf(name, <<" ", "bullet", " ">>) = -1 THEN name
    ELSE slice(name, 0, indexOf(name, <<" ", "bullet", " ">>))

MetaLabel == <<"M", "e", "t", "a">>

\* 'global' and 'self-improvement' are merged into 'Meta'
normalizeFolderName(taskFocus) ==
    IF toLowerCase(taskFocus) \in {toLowerCase(GlobalLabel), toLowerCase(SelfImprovementLabel)}
    THEN MetaLabel ELSE taskFocus

\* customFolder || normalizeFolderName(autoTaskFocus)
taskFocusOf(session, md) ==
    IF getCustomFolder(md, session.id) # Null THEN getCustomFolder(md, session.id)
    ELSE normalizeFolderName(splitBullet(generateDefaultName(namedSession(session))))

\* the SessionItem of a session (its display name, summary and fork are
\* left out of the model)
itemOf(session, md, active, now) ==
    [id |-> session.id,
     taskFocus |-> taskFocusOf(session, md),
     isActive |-> isSessionRunning(active, session.id) \/ isSessionActive(session, now),
     isArchived |-> isArchived(md, session.id)]

\* the loop over the sessions: `if (!showHistorical && !isActive) continue`
sessionItems(sessions, md, active, now, showHistorical) ==
    SelectSeq([i \in DOMAIN sessions |-> itemOf(sessions[i], md, active, now)],
              LAMBDA item : showHistorical \/ item.isActive)

\* sessionsByFolder: the items that are not archived, under their task focus
sessionsByFolder(items) ==
    [f \in {items[i].taskFocus : i \in {j \in DOMAIN items : ~items[j].isArchived}} |->
        SelectSeq(items, LAMBDA item : ~item.isArchived /\ item.taskFocus = f)]

archivedSessions(items) == SelectSeq(items, LAMBDA item : item.isArchived)

\* the letters and signs of the folder names in the order of the collation
Collation == <<" ", "-", ":">> \o Digits \o LowerLetters

rankOf(c) ==
    IF \E i \in DOMAIN Collation : Collation[i] = c
    THEN CHOOSE i \in DOMAIN Collation : Collation[i] = c
    ELSE Len(Collation) + 1

\* the first place at which the two texts differ, 0 when one is the start of
\* the other
firstDifference(a, b) ==
    IF \E i \in 1..Len(a) : i <= Len(b) /\ a[i] # b[i]
    THEN MinOf({i \in 1..Len(a) : i <= Len(b) /\ a[i] # b[i]})
    ELSE 0

\* the order of two texts by the rank of their characters
compareText(a, b) ==
    IF firstDifference(a, b) # 0
    THEN IF rankOf(a[firstDifference(a, b)]) < rankOf(b[firstDifference(a, b)])
         THEN -1 ELSE 1
    ELSE IF Len(a) < Len(b) THEN -1
    ELSE IF Len(a) > Len(b) THEN 1
    ELSE 0

\* a.localeCompare(b) on the names of the model: the letters decide without
\* their case, and between names with the same letters the one whose first
\* differing letter is small comes first
localeCompare(a, b) ==
    IF compareText(toLowerCase(a), toLowerCase(b)) # 0
    THEN compareText(toLowerCase(a), toLowerCase(b))
    ELSE IF firstDifference(a, b) = 0 THEN 0
    ELSE IF lowerOf(a[firstDifference(a, b)]) = <<a[firstDifference(a, b)]>> THEN -1
    ELSE 1

\* the comparator of the folders: those with an active session first, then
\* by name
compareFolders(byFolder, a, b) ==
    IF (\E i \in DOMAIN byFolder[a] : byFolder[a][i].isActive)
           /\ ~(\E i \in DOMAIN byFolder[b] : byFolder[b][i].isActive) THEN -1
    ELSE IF ~(\E i \in DOMAIN byFolder[a] : byFolder[a][i].isActive)
           /\ (\E i \in DOMAIN byFolder[b] : byFolder[b][i].isActive) THEN 1
    ELSE localeCompare(a, b)

\* Array.from(sessionsByFolder.entries()).sort(...): the keys of the map are
\* distinct, so the comparator orders them totally and each folder stands
\* behind those that compare less
sortedFolders(byFolder) ==
    [k \in 1..Cardinality(DOMAIN byFolder) |->
        CHOOSE f \in DOMAIN byFolder :
            Cardinality({g \in DOMAIN byFolder : compareFolders(byFolder, g, f) < 0}) = k - 1]

\* the FolderItems of the root: the project folders, then 'Archived' when a
\* session is archived
ArchivedLabel == <<"A", "r", "c", "h", "i", "v", "e", "d">>

folderItems(byFolder, archived) ==
    [k \in DOMAIN sortedFolders(byFolder) |->
        [folderName |-> sortedFolders(byFolder)[k], folderType |-> "project",
         sessionCount |-> Len(byFolder[sortedFolders(byFolder)[k]])]]
    \o IF Len(archived) > 0
       THEN <<[folderName |-> ArchivedLabel, folderType |-> "archived",
               sessionCount |-> Len(archived)]>>
       ELSE <<>>

\* getChildren() of the root on the sessions listed: the caches are replaced
\* and the folders returned; an exception of getSessions leaves the tree
buildTree(t, listed, md, active, now, showHistorical) ==
    IF listed.status # "ok" THEN t
    ELSE LET items == sessionItems(listed.sessions, md, active, now, showHistorical)
         IN  [t EXCEPT
                !.built = TRUE,
                !.cachedSessions = sessionsByFolder(items),
                !.cachedArchivedSessions = archivedSessions(items),
                !.folders = folderItems(sessionsByFolder(items), archivedSessions(items))]

\* getChildren(element) of a folder
getChildren(t, element) ==
    IF element.folderType = "archived" THEN t.cachedArchivedSessions
    ELSE IF element.folderName \in DOMAIN t.cachedSessions
         THEN t.cachedSessions[element.folderName]
         ELSE <<>>

\* refresh(): the view is told that the tree changed, and asks for it anew
refresh(t, command) == [t EXCEPT !.built = FALSE, !.command = command]

\* the sessions under the project folders and under 'Archived'
ShownSessions(t) ==
    UNION {SeqToSet(getChildren(t, t.folders[k])) : k \in DOMAIN t.folders}

\* the view asks for the root, at the time now
GetChildren(now) ==
    /\ tree' = buildTree(tree,
                         getSessions(IF config.maxSessionsToShow = 0
                                     THEN FallbackMaxSessions
                                     ELSE config.maxSessionsToShow),
                         metadata, activeTerminals, now, config.showHistoricalSessions)
    /\ UNCHANGED <<fs, call, corpus, result, panel, terminals, activeTerminals, opened,
                   metadata, config>>

\* claudeSessions.archiveSession on a session of a project folder
ArchiveCommand(sessionId) ==
    /\ \E item \in ShownSessions(tree) : item.id = sessionId /\ ~item.isArchived
    /\ metadata' = archiveSession(metadata, sessionId)
    /\ tree' = refresh(tree, [op |-> "archive", sessionId |-> sessionId])
    /\ UNCHANGED <<fs, call, corpus, result, panel, terminals, activeTerminals, opened,
                   config>>

\* claudeSessions.unarchiveSession on a session of the 'Archived' folder
UnarchiveCommand(sessionId) ==
    /\ \E item \in ShownSessions(tree) : item.id = sessionId /\ item.isArchived
    /\ metadata' = unarchiveSession(metadata, sessionId)
    /\ tree' = refresh(tree, [op |-> "unarchive", sessionId |-> sessionId])
    /\ UNCHANGED <<fs, call, corpus, result, panel, terminals, activeTerminals, opened,
                   config>>

\* the user changes claudeSessions.showHistoricalSessions
ToggleHistorical ==
    /\ config' = [config EXCEPT !.showHistoricalSessions = ~@]
    /\ UNCHANGED <<fs, call, corpus, result, panel, terminals, activeTerminals, opened,
                   metadata, tree>>

(***************************************************************************)
(* SpecTree: the tree over three transcripts, two of which may have the    *)
(* same name in two project directories                                    *)
(***************************************************************************)
\* a transcript with a summary, written at the times 1 and 2
TreeFile(id, summary) ==
    NewFile(id, FALSE,
            <<[PlainEntry("summary") EXCEPT !.summary = summary],
              [PlainEntry("user") EXCEPT !.text = <<"h", "i">>, !.ts = 1],
              [PlainEntry("assistant") EXCEPT !.text = <<"h", "i">>, !.ts = 2]>>,
            TRUE)

\* the times at which the view asks for the tree: soon after the last
\* message, and more than five minutes after it
Clock == {3, 9}

TreeInit ==
    /\ fs = {Root}
    /\ call = NoCall
    /\ \E other \in {1, 3} :
           corpus = [exists |-> TRUE,
                     dirs |-> <<[name |-> HomeDirName, readable |-> TRUE,
                                 files |-> <<TreeFile(1, "S1"), TreeFile(2, "S2")>>],
                                [name |-> OtherDirName, readable |-> TRUE,
                                 files |-> <<TreeFile(other, "S2")>>]>>]
    /\ result = NoResult
    /\ HostInit

TreeNext ==
    \/ \E now \in Clock : GetChildren(now)
    \/ \E sessionId \in 1..3 : ArchiveCommand(sessionId)
    \/ \E sessionId \in 1..3 : UnarchiveCommand(sessionId)
    \/ ToggleHistorical

SpecTree == TreeInit /\ [][TreeNext]_vars

\* the session id is enumerated: getSessions lists a session with it
Enumerated(sessionId) ==
    \E s \in SeqToSet(getSessions(FallbackMaxSessions).sessions) : s.id = sessionId

\* the folders of the tree of the type that have a session with the id as a child
FoldersOf(sessionId, folderType) ==
    {k \in DOMAIN tree.folders :
        /\ tree.folders[k].folderType = folderType
        /\ \E item \in SeqToSet(getChildren(tree, tree.folders[k])) : item.id = sessionId}

\* C21: after archiveSession(id) and a refresh, an enumerated session id is a
\* child of the 'Archived' folder and of no project folder, and the Archived
\* folder is the last item of the root; after unarchiveSession(id) and a
\* refresh it is a child of exactly one project folder and not of 'Archived'
C21_ArchiveHidesAndRestores ==
    (tree.built /\ tree.command.op \in {"archive", "unarchive"}
                /\ Enumerated(tree.command.sessionId)) =>
        IF tree.command.op = "archive"
        THEN /\ FoldersOf(tree.command.sessionId, "archived") # {}
             /\ FoldersOf(tree.command.sessionId, "project") = {}
             /\ tree.folders[Len(tree.folders)].folderType = "archived"
        ELSE /\ Cardinality(FoldersOf(tree.command.sessionId, "project")) = 1
             /\ FoldersOf(tree.command.sessionId, "archived") = {}

====
